---------------------------- MODULE Spec2Model ----------------------------
(***************************************************************************)
(* A model of the per-inode metadata log and the file block map of PMFS    *)
(* (src/inode.c, src/dir.c, src/pmfs.h).                                   *)
(*                                                                         *)
(* Addresses are byte offsets into the NVMM region, as in the code: block  *)
(* number b lives at b << PAGE_SHIFT, a log entry is ENTRY_SIZE bytes, the *)
(* page tail sits at offset LAST_ENTRY of its page.  Interior nodes of the *)
(* block map are DRAM blocks (inode.c casts the slot value to a pointer),  *)
(* numbered 1..NumMeta.                                                    *)
(***************************************************************************)
EXTENDS Integers, Sequences, FiniteSets, TLC

(***************************************************************************)
(* Program constants.                                                      *)
(***************************************************************************)
INVALID_MASK == 4095
PAGE_SIZE == INVALID_MASK + 1
ENTRY_SIZE == 32

(***************************************************************************)
(* Bounds of the model.  ENTRIES_PER_PAGE (127 in pmfs.h) and              *)
(* META_BLK_SHIFT (9 in the kernel build) are scaled down so that page     *)
(* turns, garbage collection and height changes happen within MaxOps       *)
(* operations; LAST_ENTRY follows ENTRIES_PER_PAGE as in the header        *)
(* (127 * 32 = 4064).  COUNTER_LIMIT is the value at which the             *)
(* invalidation counter stops (4000 in inode.c), scaled below MaxNum the   *)
(* way 4000 lies below the page counts a 32-bit num_pages can hold.        *)
(***************************************************************************)
ENTRIES_PER_PAGE == 2
META_BLK_SHIFT == 1
COUNTER_LIMIT == 2
NumBlocks == 11
NumMeta == 7
MaxBlk == 3
MaxNum == 3
\* 4K blocks per data block of the large block type, as a shift (9 for 2M blocks)
BigBlkShift == 1
MaxOps == 3
\* with the memory system modelled: operations per run, highest file block written
MaxCrashOps == 3
CrashMaxBlk == 1
\* for the runs that exercise garbage collection: operations, highest block written
MaxLogOps == 9
\* operations on a tall regular file and on the inode table (SpecTall)
MaxTallOps == 3
MaxTableOps == 3
\* operations on a directory (SpecDir)
MaxDirOps == 3
\* entries the buffer of one readdir call takes
MaxRoom == 2
\* the superblock side (SpecSb): slots of the inode table at mount and at most,
\* blocks of a file, operations started
InitInodes == 4
MaxInodes == 6
MaxFileBlocks == 2
MaxSbOps == 3
\* slots per block of the inode table
InodesPerBlock == 2
\* the first slot handed out to files
PMFS_FREE_INODE_HINT_START == 2
LogMaxBlk == 1

LAST_ENTRY == ENTRIES_PER_PAGE * ENTRY_SIZE
FANOUT == 2 ^ META_BLK_SHIFT

Blocks == 1..NumBlocks
Metas == 1..NumMeta
Slots == 0..(FANOUT - 1)
EntryIdx == 0..(ENTRIES_PER_PAGE - 1)

VARIABLES
    pi,       \* the persistent inode: log_head, log_tail, log_pages, root, height, i_blocks, i_size
    mem,      \* NVMM blocks viewed as log pages: entries and page_tail.next_page
    blk,      \* block allocator: "free", "log" or "data" per block number
    nodes,    \* DRAM meta blocks: FANOUT slots each
    meta,     \* meta-block allocator: "free" or "used"
    err,      \* events the code does not survive or must never cause (BUG(), double free, ...)
    ref,      \* reference map: file block -> address of the entry last written there, 0 if none
    last,     \* the operation just completed, with what it observed
    ops,      \* number of operations the run may still start
    dir_tree, \* DRAM index of a directory: nodes (hash, nvmm, ino)
    hw,       \* the memory system: cached and persistent NVMM images, stores still to issue
    ctx,      \* the dir_context of the open directory: pos
    sbi,      \* DRAM superblock info: mutexes, inode counters and hint, s_truncate, inode
              \* cache, and per slot the calls of pmfs_new_inode that returned it (users)
    tbl,      \* the slots of the inode table
    nv,       \* the persistent truncate list: cached (c) and persistent (p) value of each
              \* unit, and the units flushed since the last barrier (pend)
    thr       \* the threads: operation, steps still to run, mutexes held

\* what the operations on one inode's log and block map leave alone
sbvars == <<sbi, tbl, nv, thr>>
rest == <<ctx, sbvars>>

vars == <<pi, mem, blk, nodes, meta, err, ref, last, ops, dir_tree, hw, rest>>

(***************************************************************************)
(* Address arithmetic (pmfs.h).                                            *)
(***************************************************************************)
ENTRY_LOC(p) == p % PAGE_SIZE
BLOCK_OFF(p) == p - (p % PAGE_SIZE)
GET_INVALID(block) == block % PAGE_SIZE
pmfs_get_blocknr(block) == block \div PAGE_SIZE
pmfs_get_block_off(blocknr) == blocknr * PAGE_SIZE
\* u64 left shift by PAGE_SHIFT; model addresses are far below 2^52, so no bit is lost
ShlPage(x) == x * PAGE_SIZE

\* "data_bits - sb->s_blocksize_bits" with data_bits = blk_type_to_shift[pi->i_blk_type]
DataBlkShift(p) == IF p.i_blk_type = "4K" THEN 0 ELSE BigBlkShift

\* pmfs_inode_blk_size
pmfs_inode_blk_size(p) == PAGE_SIZE * 2 ^ DataBlkShift(p)

\* one ENTRY_SIZE slot of a log page: the fields of a file write entry and those
\* of a directory entry of one slot
ZeroEntry == [block |-> 0, pgoff |-> 0, num_pages |-> 0,
              entry_type |-> 0, ino |-> 0, name_len |-> 0, name |-> "", de_len |-> 0]
ZeroPage == [entries |-> [i \in EntryIdx |-> ZeroEntry], next_page |-> 0]
ZeroNode == [i \in Slots |-> 0]

IsEntryAddr(p) ==
    /\ pmfs_get_blocknr(p) \in Blocks
    /\ ENTRY_LOC(p) < LAST_ENTRY
    /\ ENTRY_LOC(p) % ENTRY_SIZE = 0

EntryAt(w, p) == w.mem[pmfs_get_blocknr(p)].entries[ENTRY_LOC(p) \div ENTRY_SIZE]

Flag(w, e) == [w EXCEPT !.err = @ \cup {e}]

(***************************************************************************)
(* Stores to NVMM.  Every store, cache-line flush and barrier the code      *)
(* issues is appended to w.tr in program order; the memory system replays  *)
(* them (Hw) while lines may be written back early (Writeback).  A unit    *)
(* is one atomically stored word or one log-entry slot.                    *)
(***************************************************************************)
Unit(t, a) == [t |-> t, a |-> a]

Emit(w, e) == [w EXCEPT !.tr = Append(@, e)]

SetEntry(w, p, e) ==
    Emit([w EXCEPT !.mem[pmfs_get_blocknr(p)].entries[ENTRY_LOC(p) \div ENTRY_SIZE] = e],
         [k |-> "st", u |-> Unit("ent", p), v |-> e])

SetNextPage(w, blocknr, next) ==
    Emit([w EXCEPT !.mem[blocknr].next_page = next],
         [k |-> "st", u |-> Unit("next", blocknr), v |-> next])

SetLogField(w, f, v) ==
    Emit([w EXCEPT !.pi[f] = v], [k |-> "st", u |-> Unit(f, 0), v |-> v])

PERSISTENT_BARRIER(w) == Emit(w, [k |-> "fence"])

pmfs_flush_buffer(w, units, fence) ==
    LET w1 == Emit(w, [k |-> "flush", us |-> units])
    IN IF fence THEN PERSISTENT_BARRIER(w1) ELSE w1

\* the cache line at &pi->log_head: log_head, log_tail and log_pages
LogHeadLine == {Unit("log_head", 0), Unit("log_tail", 0), Unit("log_pages", 0)}

(***************************************************************************)
(* The block allocator (external collaborator): lowest free run.           *)
(***************************************************************************)
FreeRuns(w, n) ==
    {b \in Blocks : \A k \in 0..(n - 1) : (b + k) \in Blocks /\ w.blk[b + k] = "free"}

Lowest(S) == CHOOSE x \in S : \A y \in S : x <= y

RECURSIVE ZeroPages(_, _, _)
ZeroPages(w, blocknr, n) ==
    IF n = 0 THEN w
    ELSE ZeroPages(Emit([w EXCEPT !.mem[blocknr] = ZeroPage], [k |-> "zero", b |-> blocknr]),
                   blocknr + 1, n - 1)

pmfs_new_data_blocks(w, blocknr, n, kind) ==
    LET w1 == [w EXCEPT !.blk = [b \in Blocks |->
                                    IF b >= blocknr /\ b < blocknr + n THEN kind ELSE @[b]]]
    IN IF kind = "log" THEN ZeroPages(w1, blocknr, n) ELSE w1

pmfs_free_data_block(w, blocknr) ==
    IF blocknr \notin Blocks THEN Flag(w, "wild_free")
    ELSE IF w.blk[blocknr] = "free" THEN Flag(w, "double_free")
    ELSE [w EXCEPT !.blk[blocknr] = "free"]

\* mfuel is the number of meta block allocations that succeed before one fails
pmfs_new_meta_blocks(w, id) ==
    [w EXCEPT !.meta[id] = "used", !.nodes[id] = ZeroNode, !.mfuel = @ - 1]

pmfs_free_meta_block(w, id) ==
    IF id \notin Metas THEN Flag(w, "wild_free")
    ELSE IF w.meta[id] = "free" THEN Flag(w, "double_free")
    ELSE [w EXCEPT !.meta[id] = "free"]

(***************************************************************************)
(* The inode log (inode.c).                                                *)
(***************************************************************************)
is_last_entry(curr_p) == ENTRY_LOC(curr_p) = LAST_ENTRY

next_log_page(w, curr_p) ==
    IF pmfs_get_blocknr(curr_p) \in Blocks
    THEN w.mem[pmfs_get_blocknr(curr_p)].next_page
    ELSE 0

\* pmfs_allocate_inode_log_pages: num_pages contiguous zeroed blocks, chained
RECURSIVE CoalescePages(_, _, _)
CoalescePages(w, blocknr, n) ==
    IF n <= 1 THEN w
    ELSE CoalescePages(SetNextPage(w, blocknr, pmfs_get_block_off(blocknr + 1)),
                       blocknr + 1, n - 1)

pmfs_allocate_inode_log_pages(w, num_pages, allocOk) ==
    IF ~allocOk \/ FreeRuns(w, num_pages) = {}
    THEN [w |-> w, errval |-> -28, new_block |-> 0]
    ELSE LET b == Lowest(FreeRuns(w, num_pages))
         IN [w |-> CoalescePages(pmfs_new_data_blocks(w, b, num_pages, "log"), b, num_pages),
             errval |-> 0,
             new_block |-> pmfs_get_block_off(b)]

curr_page_invalid(w, curr) ==
    \A i \in EntryIdx :
        LET entry == w.mem[pmfs_get_blocknr(curr)].entries[i]
        IN entry.num_pages = GET_INVALID(entry.block)

free_curr_page(w, curr, last_page) ==
    pmfs_free_data_block(
        pmfs_flush_buffer(
            SetNextPage(w, pmfs_get_blocknr(last_page),
                        w.mem[pmfs_get_blocknr(curr)].next_page),
            {Unit("next", pmfs_get_blocknr(last_page))}, TRUE),
        pmfs_get_blocknr(curr))

\* the test guarding the tail page in pmfs_inode_log_garbage_collection
IsTailPage(curr, log_tail) == ShlPage(curr) = ShlPage(log_tail)

\* one pass of the while(1) loop of pmfs_inode_log_garbage_collection on page
\* g.curr, which is invalid (inv) or not; g carries the locals of the function
GCVisit(g, log_head, inv, next) ==
    [curr |-> next,
     possible_head |-> IF ~inv /\ g.found_head = 0 THEN g.curr ELSE g.possible_head,
     found_head |-> IF ~inv THEN 1 ELSE g.found_head,
     last_page |-> IF inv /\ g.curr # log_head THEN g.last_page ELSE g.curr,
     first_need_free |-> IF inv /\ g.curr = log_head THEN 1 ELSE g.first_need_free,
     freed |-> IF inv /\ g.curr # log_head THEN Append(g.freed, g.curr) ELSE g.freed]

RECURSIVE GCLoop(_, _, _)
GCLoop(w, g, fuel) ==
    IF fuel = 0 THEN [w |-> Flag(w, "gc_cycle"), g |-> g]
    ELSE IF IsTailPage(g.curr, w.pi.log_tail)
    THEN [w |-> w,
          g |-> IF g.found_head = 0 THEN [g EXCEPT !.possible_head = g.curr] ELSE g]
    ELSE IF pmfs_get_blocknr(g.curr) \notin Blocks
    THEN [w |-> Flag(w, "wild_read"), g |-> g]
    ELSE IF w.mem[pmfs_get_blocknr(g.curr)].next_page = 0
    THEN [w |-> IF curr_page_invalid(w, g.curr) /\ g.curr # w.pi.log_head
                THEN free_curr_page(w, g.curr, g.last_page)
                ELSE w,
          g |-> GCVisit(g, w.pi.log_head, curr_page_invalid(w, g.curr), 0)]
    ELSE GCLoop(IF curr_page_invalid(w, g.curr) /\ g.curr # w.pi.log_head
                THEN free_curr_page(w, g.curr, g.last_page)
                ELSE w,
                GCVisit(g, w.pi.log_head, curr_page_invalid(w, g.curr),
                        w.mem[pmfs_get_blocknr(g.curr)].next_page),
                fuel - 1)

\* pmfs_inode_log_garbage_collection after its loop: r is what the loop left
GCSplice(w, r, new_block, num_pages) ==
    LET tailpg == pmfs_get_blocknr(w.pi.log_tail)
        old_head == w.pi.log_head
        linked == IF r.w.blk[tailpg] # "log"
                  THEN Flag(SetNextPage(r.w, tailpg, new_block), "write_after_free")
                  ELSE SetNextPage(r.w, tailpg, new_block)
        switched == pmfs_flush_buffer(
                        SetLogField(SetLogField(SetLogField(linked, "log_head",
                                                            r.g.possible_head),
                                                "log_tail", new_block),
                                    "log_pages", w.pi.log_pages + num_pages),
                        LogHeadLine, TRUE)
    IN [w |-> IF r.g.first_need_free = 1
              THEN pmfs_free_data_block(switched, pmfs_get_blocknr(old_head))
              ELSE switched,
        freed |-> IF r.g.first_need_free = 1 THEN Append(r.g.freed, old_head)
                  ELSE r.g.freed]

pmfs_inode_log_garbage_collection(w, new_block, num_pages) ==
    GCSplice(w,
             GCLoop(w, [curr |-> w.pi.log_head, possible_head |-> 0, found_head |-> 0,
                        last_page |-> 0, first_need_free |-> 0, freed |-> <<>>],
                    NumBlocks + 1),
             new_block, num_pages)

NoGC == [ran |-> FALSE]

Range(seq) == {seq[i] : i \in 1..Len(seq)}

RECURSIVE ChainWalk(_, _, _)
ChainWalk(w, page, fuel) ==
    IF page = 0 \/ fuel = 0 \/ pmfs_get_blocknr(page) \notin Blocks THEN <<>>
    ELSE <<page>> \o ChainWalk(w, w.mem[pmfs_get_blocknr(page)].next_page, fuel - 1)

\* the pages of the log in chain order, from the page of head along next_page
ChainFrom(w, head) == ChainWalk(w, BLOCK_OFF(head), NumBlocks + 1)

\* the test of pmfs_append_inode_entry for a new page (batch)
NeedLogPage(w) ==
    w.pi.log_tail = 0 \/ (is_last_entry(w.pi.log_tail) /\ next_log_page(w, w.pi.log_tail) = 0)

LogBatch(w) == IF w.pi.log_pages >= 256 THEN 256 ELSE w.pi.log_pages

\* what garbage collection saw and did, kept beside the result of the append
GCRecord(w, new_block, freed) ==
    [ran |-> TRUE, old_tail |-> w.pi.log_tail, new_block |-> new_block,
     num_pages |-> LogBatch(w), chain |-> ChainFrom(w, w.pi.log_head),
     dead |-> {p \in Range(ChainFrom(w, w.pi.log_head)) : curr_page_invalid(w, p)},
     freed |-> freed]

\* the tail of pmfs_append_inode_entry: the entry is written at curr_p and flushed
AppendEntryAt(w1, curr_p, start_blk, num_blocks, block, gc) ==
    IF ~IsEntryAddr(curr_p) \/ w1.blk[pmfs_get_blocknr(curr_p)] # "log"
    THEN [w |-> Flag(w1, "wild_write"), curr_p |-> curr_p, gc |-> gc, allocFailed |-> FALSE]
    ELSE [w |-> pmfs_flush_buffer(
                    SetEntry(SetEntry(SetEntry(w1, curr_p,
                        [EntryAt(w1, curr_p) EXCEPT !.pgoff = start_blk]), curr_p,
                        [EntryAt(w1, curr_p) EXCEPT !.pgoff = start_blk,
                                                    !.num_pages = num_blocks]), curr_p,
                        [EntryAt(w1, curr_p) EXCEPT !.pgoff = start_blk,
                                                    !.num_pages = num_blocks,
                                                    !.block = block]),
                    {Unit("ent", curr_p)}, TRUE),
          curr_p |-> curr_p, gc |-> gc, allocFailed |-> FALSE]

\* pmfs_append_inode_entry from the point where the log has a place for the entry:
\* w1 is the state and p0 the position after the page allocation, if there was one
AppendAfterPage(w1, p0, start_blk, num_blocks, block, gc) ==
    AppendEntryAt(w1, IF is_last_entry(p0) THEN next_log_page(w1, p0) ELSE p0,
                  start_blk, num_blocks, block, gc)

\* after garbage collection (gcr) the entry goes to the first new page
AppendCollected(w, gcr, new_block, start_blk, num_blocks, block) ==
    AppendAfterPage(gcr.w, new_block, start_blk, num_blocks, block,
                    GCRecord(w, new_block, gcr.freed))

\* the branch of pmfs_append_inode_entry that adds pages: a is the allocation
AppendNewPage(w, a, start_blk, num_blocks, block) ==
    IF a.errval # 0
    THEN [w |-> w, curr_p |-> 0, gc |-> NoGC, allocFailed |-> TRUE]
    ELSE IF w.pi.log_tail = 0
    THEN AppendAfterPage(pmfs_flush_buffer(
                             SetLogField(SetLogField(a.w, "log_head", a.new_block),
                                         "log_pages", 1),
                             LogHeadLine, TRUE),
                         a.new_block, start_blk, num_blocks, block, NoGC)
    ELSE AppendCollected(w, pmfs_inode_log_garbage_collection(a.w, a.new_block, LogBatch(w)),
                         a.new_block, start_blk, num_blocks, block)

\* pmfs_append_inode_entry: returns the address of the entry (0 on failure)
pmfs_append_inode_entry(w, blocknr, start_blk, num_blocks, allocOk) ==
    IF NeedLogPage(w)
    THEN AppendNewPage(w,
                       pmfs_allocate_inode_log_pages(
                           w, IF w.pi.log_tail = 0 THEN 1 ELSE LogBatch(w), allocOk),
                       start_blk, num_blocks, pmfs_get_block_off(blocknr))
    ELSE AppendAfterPage(w, w.pi.log_tail, start_blk, num_blocks,
                         pmfs_get_block_off(blocknr), NoGC)

\* pmfs_free_inode_log
RECURSIVE FreeLogLoop(_, _, _)
FreeLogLoop(w, curr_block, fuel) ==
    IF curr_block = 0 THEN w
    ELSE IF fuel = 0 THEN Flag(w, "free_cycle")
    ELSE IF pmfs_get_blocknr(curr_block) \notin Blocks THEN Flag(w, "wild_read")
    ELSE FreeLogLoop(pmfs_free_data_block(w, pmfs_get_blocknr(curr_block)),
                     w.mem[pmfs_get_blocknr(curr_block)].next_page, fuel - 1)

pmfs_free_inode_log(w) ==
    IF w.pi.log_head = 0 \/ w.pi.log_tail = 0 THEN w
    ELSE SetLogField(SetLogField(SetLogField(FreeLogLoop(w, w.pi.log_head, NumBlocks + 1),
                                             "log_head", 0),
                                 "log_tail", 0),
                     "log_pages", 0)

(***************************************************************************)
(* The file block map (inode.c).  Regular files with 4K blocks: a leaf     *)
(* slot (or a height-0 root) holds the address of a log entry.             *)
(***************************************************************************)
\* the bump without the test against the limit
BumpNoLimit(entry) == [entry EXCEPT !.block = @ + 1]

\* the invalidation done wherever a slot is superseded: bump the counter kept in
\* the low bits of entry->block unless it reached the limit
BumpInvalid(entry) ==
    IF GET_INVALID(entry.block) < COUNTER_LIMIT
    THEN [entry EXCEPT !.block = @ + 1]
    ELSE entry

\* the BUG() guard of recursive_assign_blocks and recursive_truncate_blocks
EntryCovers(entry, pgoff) ==
    ~(entry.pgoff > pgoff \/ entry.pgoff + entry.num_pages <= pgoff)

\* the occupied-slot body with the counter left as it was
AssignInvalidateNoBump(w, slotval, pgoff) ==
    IF ~IsEntryAddr(slotval) THEN Flag(w, "wild_read")
    ELSE
      LET entry == EntryAt(w, slotval)
          blocknr == pmfs_get_blocknr(entry.block) + (pgoff - entry.pgoff)
      IN IF ~EntryCovers(entry, pgoff) THEN Flag(w, "BUG")
         ELSE [pmfs_free_data_block(w, blocknr) EXCEPT !.pi.i_blocks = @ - 1]

\* height-1 body of recursive_assign_blocks for an occupied slot
AssignInvalidate(w, slotval, pgoff) ==
    IF ~IsEntryAddr(slotval) THEN Flag(w, "wild_read")
    ELSE
      LET entry == EntryAt(w, slotval)
          blocknr == pmfs_get_blocknr(entry.block) + (pgoff - entry.pgoff)
      IN IF ~EntryCovers(entry, pgoff) THEN Flag(w, "BUG")
         ELSE [pmfs_free_data_block(SetEntry(w, slotval, BumpInvalid(entry)), blocknr)
                  EXCEPT !.pi.i_blocks = @ - 1]

RECURSIVE AssignLoop(_, _, _, _, _, _, _, _, _)
\* the for loop of recursive_assign_blocks at index i
AssignLoop(w, block, height, first_blocknr, last_blocknr, curr_entry, start_pgoff, metaOk, i) ==
    LET node_bits == (height - 1) * META_BLK_SHIFT
        first_index == first_blocknr \div (2 ^ node_bits)
        last_index == last_blocknr \div (2 ^ node_bits)
    IN IF i > last_index \/ "BUG" \in w.err THEN [w |-> w, errval |-> 0]
       ELSE IF height = 1
       THEN LET w1 == IF w.nodes[block][i] # 0
                      THEN AssignInvalidate(w, w.nodes[block][i], start_pgoff + i)
                      ELSE w
                w2 == [w1 EXCEPT !.nodes[block][i] = curr_entry]
            IN AssignLoop(w2, block, height, first_blocknr, last_blocknr, curr_entry,
                          start_pgoff, metaOk, i + 1)
       ELSE LET freeMeta == {m \in Metas : w.meta[m] = "free"}
                needNew == w.nodes[block][i] = 0
            IN IF needNew /\ (~metaOk \/ w.mfuel = 0 \/ freeMeta = {})
               THEN [w |-> w, errval |-> -28]
               ELSE
                 LET w1 == IF needNew
                           THEN [pmfs_new_meta_blocks(w, Lowest(freeMeta))
                                    EXCEPT !.nodes[block][i] = Lowest(freeMeta)]
                           ELSE w
                     first_blk == IF i = first_index
                                  THEN first_blocknr % (2 ^ node_bits) ELSE 0
                     last_blk == IF i = last_index
                                 THEN last_blocknr % (2 ^ node_bits)
                                 ELSE (2 ^ node_bits) - 1
                     pgoff == start_pgoff + i * (2 ^ node_bits)
                     r == AssignLoop(w1, w1.nodes[block][i], height - 1, first_blk,
                                     last_blk, curr_entry, pgoff, metaOk,
                                     first_blk \div (2 ^ ((height - 2) * META_BLK_SHIFT)))
                 IN IF r.errval < 0 THEN r
                    ELSE AssignLoop(r.w, block, height, first_blocknr, last_blocknr,
                                    curr_entry, start_pgoff, metaOk, i + 1)

recursive_assign_blocks(w, block, height, first_blocknr, last_blocknr, curr_entry, start_pgoff, metaOk) ==
    AssignLoop(w, block, height, first_blocknr, last_blocknr, curr_entry, start_pgoff,
               metaOk, first_blocknr \div (2 ^ ((height - 1) * META_BLK_SHIFT)))

\* "pi->root = root; pi->height = height;": two stores, the root first.  rh collects
\* the (root, height) pairs that a reader of the inode can load during the operation
StoreRootHeight(w, root, height) ==
    [w EXCEPT !.pi.root = root, !.pi.height = height,
              !.rh = @ \cup {<<root, w.pi.height>>, <<root, height>>}]

\* cmpxchg_double_local over the inode's first 16 bytes: height and root in one store
SwapRootHeight(w, root, height) ==
    [w EXCEPT !.pi.root = root, !.pi.height = height, !.rh = @ \cup {<<root, height>>}]

RECURSIVE IncreaseLoop(_, _, _, _, _)
\* the while loop of pmfs_increase_btree_height
IncreaseLoop(w, prev_root, height, new_height, metaOk) ==
    LET freeMeta == {m \in Metas : w.meta[m] = "free"}
    IN IF height >= new_height THEN [w |-> w, prev_root |-> prev_root, height |-> height,
                                     errval |-> 0]
       ELSE IF ~metaOk \/ w.mfuel = 0 \/ freeMeta = {}
       THEN [w |-> w, prev_root |-> prev_root, height |-> height, errval |-> -28]
       ELSE LET m == Lowest(freeMeta)
                w1 == [pmfs_new_meta_blocks(w, m) EXCEPT !.nodes[m][0] = prev_root]
            IN IncreaseLoop(w1, m, height + 1, new_height, metaOk)

pmfs_increase_btree_height(w, new_height, metaOk) ==
    LET r == IncreaseLoop(w, w.pi.root, w.pi.height, new_height, metaOk)
    IN [w |-> StoreRootHeight(r.w, r.prev_root, r.height), errval |-> r.errval]

\* the loop counting one level too many
GrowLong(total_blocks, height) ==
    IF total_blocks >= FANOUT ^ 2 THEN height + 4
    ELSE IF total_blocks >= FANOUT THEN height + 3
    ELSE height + 2

RECURSIVE GrowHeight(_, _)
\* "while (total_blocks > 0) { total_blocks >>= meta_bits; height++; }"
GrowHeight(total_blocks, height) ==
    IF total_blocks > 0
    THEN GrowHeight(total_blocks \div FANOUT, height + 1)
    ELSE height

\* __pmfs_assign_blocks
pmfs_assign_blocks(w, file_blocknr, num, curr_entry, metaOk) ==
    LET first_blocknr == file_blocknr \div 2 ^ DataBlkShift(w.pi)
        last_blocknr == (file_blocknr + num - 1) \div 2 ^ DataBlkShift(w.pi)
        max_blocks == 2 ^ (w.pi.height * META_BLK_SHIFT)
        height == IF last_blocknr > max_blocks - 1
                  THEN GrowHeight(last_blocknr \div max_blocks, w.pi.height)
                  ELSE w.pi.height
    IN IF height > 3 THEN [w |-> w, errval |-> -28]
       ELSE IF w.pi.root = 0
       THEN IF height = 0
            THEN [w |-> StoreRootHeight(w, curr_entry, height), errval |-> 0]
            ELSE LET inc == pmfs_increase_btree_height(w, height, metaOk)
                 IN IF inc.errval # 0 THEN inc
                    ELSE recursive_assign_blocks(inc.w, inc.w.pi.root, inc.w.pi.height,
                                                 first_blocknr, last_blocknr, curr_entry,
                                                 0, metaOk)
       ELSE IF height = 0
            THEN IF ~IsEntryAddr(w.pi.root) THEN [w |-> Flag(w, "wild_read"), errval |-> 0]
                 ELSE
                   LET entry == EntryAt(w, w.pi.root)
                       blocknr == pmfs_get_blocknr(entry.block)
                       w1 == pmfs_free_data_block(
                                 SetEntry(w, w.pi.root, BumpInvalid(entry)), blocknr)
                   IN [w |-> StoreRootHeight([w1 EXCEPT !.pi.i_blocks = @ - 1],
                                             curr_entry, height),
                       errval |-> 0]
            ELSE LET inc == IF height > w.pi.height
                            THEN pmfs_increase_btree_height(w, height, metaOk)
                            ELSE [w |-> w, errval |-> 0]
                 IN IF inc.errval # 0 THEN inc
                    ELSE recursive_assign_blocks(inc.w, inc.w.pi.root, height,
                                                 first_blocknr, last_blocknr, curr_entry,
                                                 0, metaOk)

\* pmfs_new_data_block: one data block of the inode's type, counted in i_blocks
pmfs_new_data_block(w) ==
    IF FreeRuns(w, 1) = {} THEN [w |-> w, errval |-> -28, blocknr |-> 0]
    ELSE [w |-> [pmfs_new_data_blocks(w, Lowest(FreeRuns(w, 1)), 1, "data")
                    EXCEPT !.pi.i_blocks = @ + 2 ^ DataBlkShift(w.pi)],
          errval |-> 0, blocknr |-> Lowest(FreeRuns(w, 1))]

RECURSIVE AllocLoop(_, _, _, _, _, _)
\* recursive_alloc_blocks with its for loop at index i
AllocLoop(w, block, height, first_blocknr, last_blocknr, i) ==
    LET node_bits == (height - 1) * META_BLK_SHIFT
        first_index == first_blocknr \div (2 ^ node_bits)
        last_index == last_blocknr \div (2 ^ node_bits)
    IN IF i > last_index THEN [w |-> w, errval |-> 0]
       ELSE IF height = 1
       THEN IF w.nodes[block][i] # 0
            THEN AllocLoop(w, block, height, first_blocknr, last_blocknr, i + 1)
            ELSE LET a == pmfs_new_data_block(w)
                 IN IF a.errval # 0
                    THEN [w |-> [a.w EXCEPT !.pi.i_flags = @ \cup {"EOFBLOCKS"}],
                          errval |-> a.errval]
                    ELSE AllocLoop([a.w EXCEPT !.nodes[block][i] =
                                                   pmfs_get_block_off(a.blocknr)],
                                   block, height, first_blocknr, last_blocknr, i + 1)
       ELSE LET freeMeta == {m \in Metas : w.meta[m] = "free"}
                needNew == w.nodes[block][i] = 0
            IN IF needNew /\ (w.mfuel = 0 \/ freeMeta = {})
               THEN [w |-> w, errval |-> -28]
               ELSE
                 LET w1 == IF needNew
                           THEN [pmfs_new_meta_blocks(w, Lowest(freeMeta))
                                    EXCEPT !.nodes[block][i] = Lowest(freeMeta)]
                           ELSE w
                     first_blk == IF i = first_index
                                  THEN first_blocknr % (2 ^ node_bits) ELSE 0
                     last_blk == IF i = last_index
                                 THEN last_blocknr % (2 ^ node_bits)
                                 ELSE (2 ^ node_bits) - 1
                     r == AllocLoop(w1, w1.nodes[block][i], height - 1, first_blk, last_blk,
                                    first_blk \div (2 ^ ((height - 2) * META_BLK_SHIFT)))
                 IN IF r.errval < 0 THEN r
                    ELSE AllocLoop(r.w, block, height, first_blocknr, last_blocknr, i + 1)

recursive_alloc_blocks(w, block, height, first_blocknr, last_blocknr) ==
    AllocLoop(w, block, height, first_blocknr, last_blocknr,
              first_blocknr \div (2 ^ ((height - 1) * META_BLK_SHIFT)))

\* __pmfs_alloc_blocks
pmfs_alloc_blocks(w, file_blocknr, num) ==
    LET first_blocknr == file_blocknr \div 2 ^ DataBlkShift(w.pi)
        last_blocknr == (file_blocknr + num - 1) \div 2 ^ DataBlkShift(w.pi)
        max_blocks == 2 ^ (w.pi.height * META_BLK_SHIFT)
        height == IF last_blocknr > max_blocks - 1
                  THEN GrowHeight(last_blocknr \div max_blocks, w.pi.height)
                  ELSE w.pi.height
    IN IF height > 3 THEN [w |-> w, errval |-> -28]
       ELSE IF w.pi.root = 0
       THEN IF height = 0
            THEN LET a == pmfs_new_data_block(w)
                 IN IF a.errval # 0 THEN [w |-> a.w, errval |-> a.errval]
                    ELSE [w |-> StoreRootHeight(a.w, pmfs_get_block_off(a.blocknr), height),
                          errval |-> 0]
            ELSE LET inc == pmfs_increase_btree_height(w, height, TRUE)
                 IN IF inc.errval # 0 THEN inc
                    ELSE recursive_alloc_blocks(inc.w, inc.w.pi.root, inc.w.pi.height,
                                                first_blocknr, last_blocknr)
       ELSE IF height = 0 THEN [w |-> w, errval |-> 0]
            ELSE LET inc == IF height > w.pi.height
                            THEN pmfs_increase_btree_height(w, height, TRUE)
                            ELSE [w |-> w, errval |-> 0]
                 IN IF inc.errval # 0 THEN inc
                    ELSE recursive_alloc_blocks(inc.w, inc.w.pi.root, height,
                                                first_blocknr, last_blocknr)

\* only the slots past the range are inspected
EmptyAboveOnly(node, start_idx, end_idx) ==
    \A i \in Slots : i >= end_idx + 1 => node[i] = 0

is_empty_meta_block(node, start_idx, end_idx) ==
    /\ \A i \in Slots : i < start_idx => node[i] = 0
    /\ \A i \in Slots : i >= end_idx + 1 => node[i] = 0

\* the same body with the counter left as it was
TruncInvalidateNoBump(w, slotval, pgoff) ==
    IF ~IsEntryAddr(slotval) THEN Flag(w, "wild_read")
    ELSE
      LET entry == EntryAt(w, slotval)
          blocknr == pmfs_get_blocknr(entry.block) + (pgoff - entry.pgoff)
      IN IF ~EntryCovers(entry, pgoff) THEN Flag(w, "BUG")
         ELSE pmfs_free_data_block(w, blocknr)

\* height-1 body of recursive_truncate_blocks for an occupied slot
TruncInvalidate(w, slotval, pgoff) ==
    IF ~IsEntryAddr(slotval) THEN Flag(w, "wild_read")
    ELSE
      LET entry == EntryAt(w, slotval)
          blocknr == pmfs_get_blocknr(entry.block) + (pgoff - entry.pgoff)
      IN IF ~EntryCovers(entry, pgoff) THEN Flag(w, "BUG")
         ELSE pmfs_free_data_block(SetEntry(w, slotval, BumpInvalid(entry)), blocknr)

\* the memset one slot short
ZeroRangeShort(w, block, start, end) ==
    IF start <= end
    THEN [w EXCEPT !.nodes[block] = [i \in Slots |->
                                        IF i >= start /\ i < end THEN 0 ELSE @[i]]]
    ELSE w

\* memset(&node[start], 0, (end - start + 1) * sizeof(u64))
ZeroRange(w, block, start, end) ==
    IF start <= end
    THEN [w EXCEPT !.nodes[block] = [i \in Slots |->
                                        IF i >= start /\ i <= end THEN 0 ELSE @[i]]]
    ELSE w

RECURSIVE TruncLoop(_, _, _, _, _, _, _, _)
\* recursive_truncate_blocks; t carries the locals freed, start, end, all_range_freed
\* while the for loop is at index i, and the function's epilogue runs past last_index
TruncLoop(w, block, height, first_blocknr, last_blocknr, start_pgoff, t, i) ==
    LET node_bits == (height - 1) * META_BLK_SHIFT
        first_index == first_blocknr \div (2 ^ node_bits)
        last_index == last_blocknr \div (2 ^ node_bits)
    IN IF "BUG" \in w.err THEN [w |-> w, freed |-> t.freed, meta_empty |-> FALSE]
       ELSE IF i > last_index
       THEN IF t.all_range_freed /\ is_empty_meta_block(w.nodes[block], first_index, last_index)
            THEN [w |-> w, freed |-> t.freed, meta_empty |-> TRUE]
            ELSE [w |-> ZeroRange(w, block, t.start, t.end), freed |-> t.freed,
                  meta_empty |-> FALSE]
       ELSE IF w.nodes[block][i] = 0
       THEN TruncLoop(w, block, height, first_blocknr, last_blocknr, start_pgoff, t, i + 1)
       ELSE IF height = 1
       THEN TruncLoop(TruncInvalidate(w, w.nodes[block][i], start_pgoff + i),
                      block, height, first_blocknr, last_blocknr, start_pgoff,
                      [t EXCEPT !.freed = @ + 1], i + 1)
       ELSE LET first_blk == IF i = first_index
                             THEN first_blocknr % (2 ^ node_bits) ELSE 0
                last_blk == IF i = last_index
                            THEN last_blocknr % (2 ^ node_bits)
                            ELSE (2 ^ node_bits) - 1
                pgoff == start_pgoff + i * (2 ^ node_bits)
                child == w.nodes[block][i]
                t0 == [freed |-> 0, start |-> first_blk \div (2 ^ ((height - 2) * META_BLK_SHIFT)),
                       end |-> last_blk \div (2 ^ ((height - 2) * META_BLK_SHIFT)),
                       all_range_freed |-> TRUE]
                r == IF child \in Metas
                     THEN TruncLoop(w, child, height - 1, first_blk, last_blk, pgoff, t0,
                                    t0.start)
                     ELSE [w |-> Flag(w, "wild_read"), freed |-> 0, meta_empty |-> FALSE]
                w1 == IF r.meta_empty THEN pmfs_free_meta_block(r.w, child) ELSE r.w
                t1 == IF r.meta_empty
                      THEN [t EXCEPT !.freed = @ + r.freed]
                      ELSE [t EXCEPT !.freed = @ + r.freed,
                                     !.start = IF i = first_index THEN @ + 1 ELSE @,
                                     !.end = IF i # first_index /\ i = last_index
                                             THEN @ - 1 ELSE @,
                                     !.all_range_freed = FALSE]
            IN TruncLoop(w1, block, height, first_blocknr, last_blocknr, start_pgoff,
                         t1, i + 1)

recursive_truncate_blocks(w, block, height, first_blocknr, last_blocknr, start_pgoff) ==
    LET node_bits == (height - 1) * META_BLK_SHIFT
        first_index == first_blocknr \div (2 ^ node_bits)
        last_index == last_blocknr \div (2 ^ node_bits)
    IN TruncLoop(w, block, height, first_blocknr, last_blocknr, start_pgoff,
                 [freed |-> 0, start |-> first_index, end |-> last_index,
                  all_range_freed |-> TRUE],
                 first_index)

pmfs_sparse_last_blocknr(height, last_blocknr) ==
    IF last_blocknr >= 2 ^ (height * META_BLK_SHIFT)
    THEN 2 ^ (height * META_BLK_SHIFT) - 1
    ELSE last_blocknr

\* the loop run at most once
ShrinkOnce(last_blocknr, new_height) ==
    IF last_blocknr > 0 THEN new_height + 1 ELSE new_height

RECURSIVE ShrinkHeight(_, _)
\* "while (last_blocknr > 0) { last_blocknr >>= META_BLK_SHIFT; new_height++; }"
ShrinkHeight(last_blocknr, new_height) ==
    IF last_blocknr > 0
    THEN ShrinkHeight(last_blocknr \div FANOUT, new_height + 1)
    ELSE new_height

RECURSIVE PeelRoot(_, _, _, _)
\* "while (height > new_height)" of pmfs_decrease_btree_height
PeelRoot(w, newroot, height, new_height) ==
    IF height <= new_height THEN [w |-> w, newroot |-> newroot]
    ELSE IF newroot \notin Metas
    THEN [w |-> Flag(w, "wild_read"), newroot |-> 0]
    ELSE PeelRoot(pmfs_free_meta_block(w, newroot), w.nodes[newroot][0],
                  height - 1, new_height)

\* pmfs_decrease_btree_height; (root, height) are stored by one cmpxchg16b
pmfs_decrease_btree_height(w, newsize, newroot) ==
    IF w.pi.i_blocks = 0 \/ newsize = 0
    THEN IF newroot # 0 THEN Flag(w, "BUG")
         ELSE SwapRootHeight(w, 0, 0)
    ELSE LET last_blocknr == ((newsize + pmfs_inode_blk_size(w.pi) - 1)
                                  \div pmfs_inode_blk_size(w.pi)) - 1
             new_height == ShrinkHeight(last_blocknr, 0)
         IN IF w.pi.height = new_height THEN w
            ELSE LET r == PeelRoot(w, newroot, w.pi.height, new_height)
                 IN SwapRootHeight(r.w, r.newroot, new_height)

RECURSIVE CountLeaves(_, _, _, _)
\* pmfs_inode_count_iblocks_recursive: the leaves under block, slots i and up
CountLeaves(w, block, height, i) ==
    IF height = 0 THEN 1
    ELSE IF block \notin Metas \/ i > FANOUT - 1 THEN 0
    ELSE (IF w.nodes[block][i] = 0 THEN 0
          ELSE CountLeaves(w, w.nodes[block][i], height - 1, 0))
         + CountLeaves(w, block, height, i + 1)

pmfs_inode_count_iblocks(w, root) ==
    IF root = 0 THEN 0
    ELSE CountLeaves(w, root, w.pi.height, 0) * 2 ^ DataBlkShift(w.pi)

\* __pmfs_truncate_blocks(inode, start, end); while mounting i_blocks is counted
\* from the tree instead of being reduced by the blocks freed
TruncateBlocks(w, start, end, mounting) ==
    LET first_blocknr == (start + pmfs_inode_blk_size(w.pi) - 1)
                             \div pmfs_inode_blk_size(w.pi)
        last_blocknr == IF "EOFBLOCKS" \in w.pi.i_flags
                        THEN 2 ^ (w.pi.height * META_BLK_SHIFT) - 1
                        ELSE pmfs_sparse_last_blocknr(
                                 w.pi.height, (end - 1) \div pmfs_inode_blk_size(w.pi))
    IN IF w.pi.root = 0 \/ ("EOFBLOCKS" \notin w.pi.i_flags /\ end = 0)
          \/ first_blocknr > last_blocknr
       THEN w
       ELSE
         LET r == IF w.pi.height = 0
                  THEN IF ~IsEntryAddr(w.pi.root)
                       THEN [w |-> Flag(w, "wild_read"), freed |-> 0, root |-> w.pi.root]
                       ELSE LET entry == EntryAt(w, w.pi.root)
                            IN [w |-> pmfs_free_data_block(
                                          SetEntry(w, w.pi.root, BumpInvalid(entry)),
                                          pmfs_get_blocknr(entry.block)),
                                freed |-> 1, root |-> 0]
                  ELSE LET t == recursive_truncate_blocks(w, w.pi.root, w.pi.height,
                                                          first_blocknr, last_blocknr, 0)
                       IN IF t.meta_empty
                          THEN [w |-> pmfs_free_meta_block(t.w, w.pi.root),
                                freed |-> t.freed, root |-> 0]
                          ELSE [w |-> t.w, freed |-> t.freed, root |-> w.pi.root]
             w1 == [r.w EXCEPT !.pi.i_blocks =
                                   IF mounting THEN pmfs_inode_count_iblocks(r.w, r.root)
                                   ELSE @ - r.freed * 2 ^ DataBlkShift(w.pi)]
         IN IF "BUG" \in w1.err THEN w1
            ELSE pmfs_decrease_btree_height(w1, start, r.root)

\* __pmfs_truncate_blocks at run time
pmfs_truncate_blocks(w, start, end) == TruncateBlocks(w, start, end, FALSE)

\* pmfs_setsize: i_size_write, then __pmfs_truncate_blocks(inode, newsize, oldsize)
pmfs_setsize(w, newsize) ==
    LET oldsize == w.pi.i_size
    IN pmfs_truncate_blocks([w EXCEPT !.pi.i_size = newsize], newsize, oldsize)

\* pmfs_free_file_inode_subtree
pmfs_free_file_inode_subtree(w, root, height, last_blocknr) ==
    IF root = 0 THEN w
    ELSE IF height = 0
    THEN IF ~IsEntryAddr(root) THEN Flag(w, "wild_read")
         ELSE LET entry == EntryAt(w, root)
                  w0 == IF w.blk[pmfs_get_blocknr(root)] # "log"
                        THEN Flag(w, "use_after_free") ELSE w
              IN pmfs_free_data_block(SetEntry(w0, root, BumpInvalid(entry)),
                                      pmfs_get_blocknr(entry.block))
    ELSE LET t == recursive_truncate_blocks(w, root, height, 0, last_blocknr, 0)
         IN IF ~t.meta_empty THEN Flag(t.w, "BUG")
            ELSE pmfs_free_meta_block(t.w, root)

(***************************************************************************)
(* Lookup.  pmfs_find_data_block guards the index against the height and   *)
(* calls __pmfs_find_data_block, the walk down the tree.                   *)
(***************************************************************************)
RECURSIVE WalkTree(_, _, _, _)
WalkTree(w, bp, height, blocknr) ==
    IF height = 0 THEN bp
    ELSE IF bp \notin Metas THEN 0
    ELSE LET bit_shift == (height - 1) * META_BLK_SHIFT
             idx == blocknr \div (2 ^ bit_shift)
             next == w.nodes[bp][idx]
         IN IF next = 0 THEN 0
            ELSE WalkTree(w, next, height - 1, blocknr % (2 ^ bit_shift))

\* the leaf slot of data block blocknr of the file (0 for a hole)
LeafSlot(w, blocknr) ==
    IF blocknr >= 2 ^ (w.pi.height * META_BLK_SHIFT) THEN 0
    ELSE WalkTree(w, w.pi.root, w.pi.height, blocknr)

\* the data offset of file block blocknr: the entry's extent at the intra-entry offset
pmfs_find_data_block(w, blocknr) ==
    LET bp == LeafSlot(w, blocknr \div 2 ^ DataBlkShift(w.pi))
    IN IF bp = 0 \/ ~IsEntryAddr(bp) THEN 0
       ELSE BLOCK_OFF(EntryAt(w, bp).block) + (blocknr - EntryAt(w, bp).pgoff) * PAGE_SIZE

(***************************************************************************)
(* State and operations of one regular file.                               *)
(***************************************************************************)
World ==
    [pi |-> pi, mem |-> mem, blk |-> blk, nodes |-> nodes, meta |-> meta, err |-> err,
     dt |-> dir_tree, tr |-> <<>>, rh |-> {}, mfuel |-> NumMeta]

\* the first cache line of the inode: root, height, size, blocks, dtime
Line0(p) ==
    [root |-> p.root, height |-> p.height, i_blocks |-> p.i_blocks, i_size |-> p.i_size,
     i_dtime |-> p.i_dtime]

\* the stores of an operation, handed to the memory system; the stores to the
\* first inode line are not flushed by the operations modelled here
Issued(w) ==
    IF Line0(w.pi) # Line0(pi)
    THEN Append(w.tr, [k |-> "st", u |-> Unit("line0", 0), v |-> Line0(w.pi)])
    ELSE w.tr

Install(w) ==
    /\ pi' = w.pi
    /\ mem' = w.mem
    /\ blk' = w.blk
    /\ nodes' = w.nodes
    /\ meta' = w.meta
    /\ err' = w.err
    /\ dir_tree' = w.dt
    /\ hw' = IF hw.mode = "off" THEN hw ELSE [hw EXCEPT !.todo = Issued(w)]

\* pmfs_new_inode leaves a fresh inode with root, height, size and log all zero
InitInode(mode, blk_type) ==
    [log_head |-> 0, log_tail |-> 0, log_pages |-> 0, root |-> 0, height |-> 0,
     i_blocks |-> 0, i_size |-> 0, i_dtime |-> 0, i_mode |-> mode,
     i_blk_type |-> blk_type, i_flags |-> {}]

\* the part of NVMM the memory system tracks
ImageOf(p, m) ==
    [log_head |-> p.log_head, log_tail |-> p.log_tail, log_pages |-> p.log_pages,
     line0 |-> Line0(p), mem |-> m]

(***************************************************************************)
(* The superblock side: the inode table with its free-slot scan, the       *)
(* truncate list, the mutexes, and the threads that run operations on      *)
(* them.  A thread's operation is a list of steps; a step that takes a     *)
(* mutex waits until it is free, a "call" step is replaced by the steps of *)
(* the function as the state under the mutex then dictates.  A flushed     *)
(* line is on the medium at the next barrier of any thread: the flush is  *)
(* complete when its thread gives up the mutex the line is written under.  *)
(***************************************************************************)
Threads == {1, 2}
InodeNrs == 0..(MaxInodes - 1)

inode_table_mutex == <<"inode_table_mutex", 0>>
s_lock == <<"s_lock", 0>>
s_truncate_lock == <<"s_truncate_lock", 0>>
i_mutex(ino) == <<"i_mutex", ino>>
Mutexes == {inode_table_mutex, s_lock, s_truncate_lock} \cup {i_mutex(i) : i \in InodeNrs}

\* the units of the persistent truncate list: the head in the superblock and
\* the two fields of the truncate item of each inode
head == <<"head", 0>>
i_next_truncate(ino) == <<"i_next_truncate", ino>>
i_truncatesize(ino) == <<"i_truncatesize", ino>>
TruncateUnits ==
    {head} \cup {i_next_truncate(i) : i \in InodeNrs} \cup {i_truncatesize(i) : i \in InodeNrs}

\* a slot of the inode table; nblocks stands for the data blocks of the block
\* map, log for log_head != 0
ZeroSlot ==
    [i_size |-> 0, i_dtime |-> 0, i_mode |-> 0, i_links_count |-> 0, nblocks |-> 0,
     log |-> FALSE]

RootSlot == [ZeroSlot EXCEPT !.i_links_count = 2, !.i_mode = 2]

\* a regular file of MaxFileBlocks blocks
FileSlot ==
    [ZeroSlot EXCEPT !.i_links_count = 1, !.i_mode = 1, !.i_size = MaxFileBlocks,
                     !.nblocks = MaxFileBlocks, !.log = TRUE]

IdleThread ==
    [ino |-> 0, i |-> 0, freed |-> 0, todo |-> <<>>, op |-> "idle", arg |-> 0,
     held |-> <<>>, want |-> 0, del |-> FALSE, got |-> 0, was |-> ZeroSlot,
     res |-> 0]

\* pmfs_init_inode_table: the counters of a table of InitInodes slots, of which
\* the slots from PMFS_FREE_INODE_HINT_START on are for files; with file, the
\* first of them holds an open regular file
SbBoot(file) ==
    /\ sbi = [mutex |-> [m \in Mutexes |-> 0],
              s_inodes_count |-> InitInodes,
              s_free_inodes_count |-> InitInodes - PMFS_FREE_INODE_HINT_START
                                         - (IF file THEN 1 ELSE 0),
              s_free_inode_hint |-> PMFS_FREE_INODE_HINT_START + (IF file THEN 1 ELSE 0),
              s_truncate |-> <<>>,
              icache |-> IF file THEN {PMFS_FREE_INODE_HINT_START} ELSE {},
              users |-> [i \in InodeNrs |->
                           IF file /\ i = PMFS_FREE_INODE_HINT_START THEN 1 ELSE 0]]
    /\ tbl = [i \in InodeNrs |->
                 IF i = 0 THEN ZeroSlot
                 ELSE IF i < PMFS_FREE_INODE_HINT_START THEN RootSlot
                 ELSE IF file /\ i = PMFS_FREE_INODE_HINT_START THEN FileSlot
                 ELSE ZeroSlot]
    /\ nv = [c |-> [u \in TruncateUnits |-> 0], p |-> [u \in TruncateUnits |-> 0],
             pend |-> {}]
    /\ thr = [t \in Threads |-> IdleThread]

\* the state of one inode with nothing written yet
InodeState(inode, hwmode, budget) ==
    /\ pi = inode
    /\ mem = [b \in Blocks |-> ZeroPage]
    /\ blk = [b \in Blocks |-> "free"]
    /\ nodes = [m \in Metas |-> ZeroNode]
    /\ meta = [m \in Metas |-> "free"]
    /\ err = {}
    /\ ref = [b \in 0..MaxBlk |-> 0]
    /\ last = [op |-> "none"]
    /\ ops = budget
    /\ dir_tree = {}
    /\ ctx = [pos |-> 0]
    /\ hw = [mode |-> hwmode, todo |-> <<>>, lost |-> <<>>, pend |-> {},
             cv |-> ImageOf(inode, [b \in Blocks |-> ZeroPage]),
             pm |-> ImageOf(inode, [b \in Blocks |-> ZeroPage])]

InitState(inode, hwmode, budget) == InodeState(inode, hwmode, budget) /\ SbBoot(FALSE)

Init == InitState(InitInode("reg", "4K"), "off", MaxOps)

\* the tail published without the barrier in front of the store
UpdateTailNoBarrier(w, new_tail) ==
    pmfs_flush_buffer(SetLogField(w, "log_tail", new_tail), {Unit("log_tail", 0)}, TRUE)

\* pmfs_update_tail
pmfs_update_tail(w, new_tail) ==
    pmfs_flush_buffer(SetLogField(PERSISTENT_BARRIER(w), "log_tail", new_tail),
                      {Unit("log_tail", 0)}, TRUE)

Max(a, b) == IF a >= b THEN a ELSE b

\* an operation may start: the inode is alive, nothing fatal happened, and (with
\* the memory system modelled) the stores of the previous operation were issued
Ready ==
    /\ err = {}
    /\ ops > 0
    /\ hw.mode = "off" \/ (hw.mode = "run" /\ hw.todo = <<>>)

\* A copy-on-write write of num blocks at file block pgoff: allocate the data blocks,
\* append the entry, publish the tail, assign the blocks in the block map.
WriteAssigned(a, s, pgoff, num) ==
    IF s.errval # 0 THEN [w |-> s.w, a |-> a, ok |-> FALSE, errval |-> s.errval]
    ELSE
    [w |-> [s.w EXCEPT !.pi.i_blocks =
                           @ + ((pgoff + num - 1) \div 2 ^ DataBlkShift(s.w.pi)
                                   - pgoff \div 2 ^ DataBlkShift(s.w.pi) + 1)
                                  * 2 ^ DataBlkShift(s.w.pi),
                       !.pi.i_size = Max(@, (pgoff + num) * PAGE_SIZE)],
     a |-> a, ok |-> TRUE, errval |-> 0]

WriteAppended(w, a, pgoff, num) ==
    IF a.curr_p = 0 \/ "wild_write" \in a.w.err
    THEN [w |-> [a.w EXCEPT !.blk = w.blk], a |-> a, ok |-> FALSE, errval |-> 0]
    ELSE WriteAssigned(a,
                       pmfs_assign_blocks(pmfs_update_tail(a.w, a.curr_p + ENTRY_SIZE),
                                          pgoff, num, a.curr_p, TRUE),
                       pgoff, num)

WriteAt(w, b, pgoff, num, allocOk) ==
    WriteAppended(w,
                  pmfs_append_inode_entry(pmfs_new_data_blocks(w, b, num, "data"),
                                          b, pgoff, num, allocOk),
                  pgoff, num)

WriteFile(w, pgoff, num, allocOk) == WriteAt(w, Lowest(FreeRuns(w, num)), pgoff, num, allocOk)

WriteDone(r, pgoff, num) ==
    /\ Install(r.w)
    /\ ref' = IF r.ok
              THEN [b \in 0..MaxBlk |->
                       IF b >= pgoff /\ b < pgoff + num THEN r.a.curr_p ELSE ref[b]]
              ELSE ref
    /\ last' = [op |-> "write", ok |-> r.ok, allocFailed |-> r.a.allocFailed,
                curr_p |-> r.a.curr_p, gc |-> r.a.gc, pgoff |-> pgoff, num |-> num,
                rh |-> r.w.rh, errval |-> r.errval, mfuel |-> r.w.mfuel]

Write(pgoff, num, allocOk) ==
    /\ Ready
    /\ pi.i_mode = "reg"
    /\ pi.i_dtime = 0
    /\ pgoff + num - 1 <= MaxBlk
    /\ FreeRuns(World, num) # {}
    /\ WriteDone(WriteFile(World, pgoff, num, allocOk), pgoff, num)
    /\ ops' = ops - 1
    /\ UNCHANGED rest

SizeChoices ==
    {b * PAGE_SIZE : b \in 0..(MaxBlk + 1)} \cup {PAGE_SIZE \div 2, PAGE_SIZE + PAGE_SIZE \div 2}

TruncateDone(w, newsize) ==
    /\ Install(w)
    /\ ref' = [b \in 0..MaxBlk |->
                 IF b >= (newsize + PAGE_SIZE - 1) \div PAGE_SIZE THEN 0 ELSE ref[b]]
    /\ last' = [op |-> "truncate", newsize |-> newsize, rh |-> w.rh]

\* pmfs_notify_change with ATTR_SIZE
Truncate(newsize) ==
    /\ Ready
    /\ pi.i_dtime = 0
    /\ newsize # pi.i_size
    /\ TruncateDone(pmfs_setsize(World, newsize), newsize)
    /\ ops' = ops - 1
    /\ UNCHANGED rest

\* pmfs_free_inode: root and size cleared, dtime set, the log freed
pmfs_free_inode(w) ==
    pmfs_free_inode_log([w EXCEPT !.pi.root = 0, !.pi.i_size = 0, !.pi.i_dtime = 1])

\* pmfs_evict_inode of an unlinked regular file
pmfs_evict_inode(w) ==
    LET root == w.pi.root
        height == w.pi.height
        last_blocknr == pmfs_sparse_last_blocknr(w.pi.height,
                            IF w.pi.i_size # 0
                            THEN (w.pi.i_size - 1) \div pmfs_inode_blk_size(w.pi) ELSE 0)
    IN pmfs_free_file_inode_subtree(pmfs_free_inode(w), root, height, last_blocknr)

Evict ==
    /\ hw.mode = "off"
    /\ pi.i_dtime = 0
    /\ err = {}
    /\ Install(pmfs_evict_inode(World))
    /\ ref' = [b \in 0..MaxBlk |-> 0]
    /\ last' = [op |-> "evict"]
    /\ UNCHANGED ops
    /\ UNCHANGED rest

\* A write of one block far into the file, with the meta block allocator failing
\* after fuel allocations.
WriteFar(pgoff, fuel) ==
    /\ Ready
    /\ pi.i_mode = "reg"
    /\ pi.i_dtime = 0
    /\ FreeRuns(World, 1) # {}
    /\ WriteDone(WriteFile([World EXCEPT !.mfuel = fuel], pgoff, 1, TRUE), pgoff, 1)
    /\ ops' = ops - 1
    /\ UNCHANGED rest

\* pmfs_init_inode_table for a table of num_blocks data blocks
pmfs_init_inode_table(w, num_blocks) ==
    pmfs_alloc_blocks([w EXCEPT !.pi.height = 0,
                                !.pi.i_size = num_blocks * pmfs_inode_blk_size(w.pi)],
                      0, num_blocks * 2 ^ DataBlkShift(w.pi))

\* pmfs_increase_inode_table_size: one more data block at the end of the table
TableGrown(w, a) ==
    IF a.errval = 0
    THEN [a EXCEPT !.w.pi.i_size = @ + pmfs_inode_blk_size(w.pi)]
    ELSE a

pmfs_increase_inode_table_size(w) ==
    TableGrown(w, pmfs_alloc_blocks(w, w.pi.i_size \div PAGE_SIZE, 1))

TableDone(r, op, first, num) ==
    /\ Install(r.w)
    /\ last' = [op |-> op, errval |-> r.errval, first |-> first, num |-> num,
                rh |-> r.w.rh, mfuel |-> r.w.mfuel]
    /\ UNCHANGED ref

TableInit(num_blocks, fuel) ==
    /\ Ready
    /\ pi.i_mode = "table"
    /\ last.op = "none"
    /\ TableDone(pmfs_init_inode_table([World EXCEPT !.mfuel = fuel], num_blocks),
                 "tableinit", 0, num_blocks)
    /\ ops' = ops - 1
    /\ UNCHANGED rest

TableGrow(fuel) ==
    /\ Ready
    /\ pi.i_mode = "table"
    /\ last.op # "none"
    /\ TableDone(pmfs_increase_inode_table_size([World EXCEPT !.mfuel = fuel]),
                 "tablegrow", pi.i_size \div pmfs_inode_blk_size(pi), 1)
    /\ ops' = ops - 1
    /\ UNCHANGED rest


(***************************************************************************)
(* The directory log and its DRAM index (dir.c).  Names of up to four       *)
(* bytes give records of PMFS_DIR_LOG_REC_LEN = ENTRY_SIZE bytes, one slot. *)
(***************************************************************************)
DIR_LOG == 2
DirNames == {"a", "b"}
Inos == {0, 5}

\* the bytes of the names used here; "b<9c>" and "a<1f>" stand for the two-byte
\* names 62 9c and 61 1f
NameBytes(name) ==
    CASE name = "." -> <<46>>
      [] name = ".." -> <<46, 46>>
      [] name = "a" -> <<97>>
      [] name = "b" -> <<98>>
      [] name = "b<9c>" -> <<98, 156>>
      [] name = "a<1f>" -> <<97, 31>>

NameLen(name) == Len(NameBytes(name))

PMFS_DIR_LOG_REC_LEN(name_len) == ((name_len + 28 + 3) \div 4) * 4

\* *str of a const char * on a build with signed char
CharValue(byte) == IF byte >= 128 THEN byte - 256 ELSE byte

\* the loop of BKDRHash with seed 131; for names of up to two bytes the sum
\* stays below 2^31, so the 32-bit wrap and the mask 0x7FFFFFFF leave it as it is
RECURSIVE BKDRFold(_, _)
BKDRFold(str, hash) ==
    IF str = <<>> THEN hash
    ELSE BKDRFold(Tail(str), hash * 131 + CharValue(Head(str)))

BKDRHash(name) == BKDRFold(NameBytes(name), 0)

\* is_last_entry of pmfs.h with new_inode == 0
is_last_entry_sized(curr_p, size) == ENTRY_LOC(curr_p) + size > LAST_ENTRY

\* pmfs_allocate_inode_log_pages as dir.c calls it: the number of pages allocated
pmfs_allocate_inode_log_pages_dir(w, num_pages, allocOk) ==
    LET a == pmfs_allocate_inode_log_pages(w, num_pages, allocOk)
    IN [w |-> a.w, allocated |-> IF a.errval = 0 THEN num_pages ELSE 0,
        new_block |-> a.new_block]

\* pmfs_get_append_head with no log yet: a is the allocation of the first page
AppendHeadFirst(w, a) ==
    IF a.allocated # 1 THEN [w |-> w, curr_p |-> 0]
    ELSE [w |-> pmfs_flush_buffer(
                    SetLogField(SetLogField(SetLogField(a.w, "log_tail", a.new_block),
                                            "log_head", a.new_block),
                                "log_pages", 1),
                    LogHeadLine, TRUE),
          curr_p |-> a.new_block]

\* pmfs_get_append_head at the end of the last page: a is the allocation of the batch
AppendHeadBatch(w, a) ==
    IF a.allocated # LogBatch(w) THEN [w |-> w, curr_p |-> 0]
    ELSE [w |-> pmfs_inode_log_garbage_collection(a.w, a.new_block, LogBatch(w)).w,
          curr_p |-> a.new_block]

\* pmfs_get_append_head: where an entry of the given size goes; 0 when no page can
\* be had, with the log untouched
pmfs_get_append_head(w, tail, size, allocOk) ==
    IF tail = 0
    THEN AppendHeadFirst(w, pmfs_allocate_inode_log_pages_dir(w, 1, allocOk))
    ELSE IF is_last_entry_sized(tail, size)
    THEN IF next_log_page(w, tail) # 0
         THEN [w |-> w, curr_p |-> next_log_page(w, tail)]
         ELSE AppendHeadBatch(w, pmfs_allocate_inode_log_pages_dir(w, LogBatch(w), allocOk))
    ELSE [w |-> w, curr_p |-> tail]

\* the directory log has room for one more record without a new page batch
DirRoom(w, size) ==
    \/ w.pi.log_tail = 0
    \/ ~is_last_entry_sized(w.pi.log_tail, size)
    \/ next_log_page(w, w.pi.log_tail) # 0

\* the field stores of a directory record, in the order of the code
DirEntryFill(w, p, e0, ino, name, de_len) ==
    SetEntry(SetEntry(SetEntry(SetEntry(SetEntry(w, p,
        [e0 EXCEPT !.entry_type = DIR_LOG]), p,
        [e0 EXCEPT !.entry_type = DIR_LOG, !.ino = ino]), p,
        [e0 EXCEPT !.entry_type = DIR_LOG, !.ino = ino, !.name_len = NameLen(name)]), p,
        [e0 EXCEPT !.entry_type = DIR_LOG, !.ino = ino, !.name_len = NameLen(name),
                   !.name = name]), p,
        [e0 EXCEPT !.entry_type = DIR_LOG, !.ino = ino, !.name_len = NameLen(name),
                   !.name = name, !.de_len = de_len])

DirEntryStores(w, p, ino, name, de_len) == DirEntryFill(w, p, EntryAt(w, p), ino, name, de_len)

\* pmfs_append_dir_inode_entry once pmfs_get_append_head returned h
DirAppendAt(h, ino, name, de_len) ==
    IF h.curr_p = 0
    THEN [w |-> Flag(h.w, "BUG"), curr_p |-> 0, curr_tail |-> 0]
    ELSE [w |-> pmfs_flush_buffer(DirEntryStores(h.w, h.curr_p, ino, name, de_len),
                                  {Unit("ent", h.curr_p)}, FALSE),
          curr_p |-> h.curr_p, curr_tail |-> h.curr_p + de_len]

pmfs_append_dir_inode_entry(w, ino, name, de_len, tail, allocOk) ==
    DirAppendAt(pmfs_get_append_head(w, tail, de_len, allocOk), ino, name, de_len)

\* the node of an existing name replaced by the new one
InsertReplacing(w, ino, name, dir_entry, nodeOk) ==
    [w |-> [w EXCEPT !.dt = {n \in @ : n.hash # BKDRHash(name)}
                              \cup {[hash |-> BKDRHash(name), nvmm |-> dir_entry,
                                     ino |-> ino]}],
     errval |-> IF \E n \in w.dt : n.hash = BKDRHash(name) THEN -22 ELSE 0]

pmfs_insert_dir_node_by_name(w, ino, name, dir_entry, nodeOk) ==
    IF \E n \in w.dt : n.hash = BKDRHash(name) THEN [w |-> w, errval |-> -22]
    ELSE IF ~nodeOk THEN [w |-> w, errval |-> -12]
    ELSE [w |-> [w EXCEPT !.dt = @ \cup {[hash |-> BKDRHash(name), nvmm |-> dir_entry,
                                           ino |-> ino]}],
          errval |-> 0]

pmfs_remove_dir_node_by_name(w, name) ==
    [w EXCEPT !.dt = {n \in @ : n.hash # BKDRHash(name)}]

\* pmfs_add_entry after the append returned a
\* ins is what the insert returned, ret what pmfs_add_entry returns
AddEntryIndexed(a, name, ino, nodeOk) ==
    IF a.curr_p = 0 THEN [w |-> a.w, new_tail |-> 0, curr_entry |-> 0, ins |-> 0, ret |-> 0]
    ELSE [w |-> pmfs_insert_dir_node_by_name(a.w, ino, name, a.curr_p, nodeOk).w,
          new_tail |-> a.curr_tail, curr_entry |-> a.curr_p,
          ins |-> pmfs_insert_dir_node_by_name(a.w, ino, name, a.curr_p, nodeOk).errval,
          ret |-> 0]

pmfs_add_entry(w, name, ino, tail, allocOk, nodeOk) ==
    AddEntryIndexed(pmfs_append_dir_inode_entry(w, ino, name,
                                                PMFS_DIR_LOG_REC_LEN(NameLen(name)),
                                                tail, allocOk),
                    name, ino, nodeOk)

\* pmfs_remove_entry after the append returned a
RemoveEntryIndexed(a, name) ==
    IF a.curr_p = 0 THEN [w |-> a.w, new_tail |-> 0, curr_entry |-> 0, ins |-> 0, ret |-> 0]
    ELSE [w |-> pmfs_remove_dir_node_by_name(a.w, name),
          new_tail |-> a.curr_tail, curr_entry |-> a.curr_p, ins |-> 0, ret |-> 0]

pmfs_remove_entry(w, name, tail, allocOk) ==
    RemoveEntryIndexed(pmfs_append_dir_inode_entry(w, 0, name,
                                                   PMFS_DIR_LOG_REC_LEN(NameLen(name)),
                                                   tail, allocOk),
                       name)

\* pmfs_append_dir_init_entries after the allocation a of the first page
DirInitEntries(w, a, self_ino, parent_ino) ==
    IF a.allocated # 1 THEN [w |-> w, errval |-> -12]
    ELSE [w |-> pmfs_update_tail(
                    pmfs_flush_buffer(
                        DirEntryStores(
                            pmfs_flush_buffer(
                                DirEntryStores(
                                    pmfs_flush_buffer(
                                        SetLogField(SetLogField([a.w EXCEPT !.pi.i_blocks = 1],
                                                                "log_tail", a.new_block),
                                                    "log_head", a.new_block),
                                        LogHeadLine, TRUE),
                                    a.new_block, self_ino, ".", PMFS_DIR_LOG_REC_LEN(1)),
                                {Unit("ent", a.new_block)}, FALSE),
                            a.new_block + PMFS_DIR_LOG_REC_LEN(1), parent_ino, "..",
                            PMFS_DIR_LOG_REC_LEN(2)),
                        {Unit("ent", a.new_block + PMFS_DIR_LOG_REC_LEN(1))}, TRUE),
                    a.new_block + PMFS_DIR_LOG_REC_LEN(1) + PMFS_DIR_LOG_REC_LEN(2)),
          errval |-> 0]

pmfs_append_dir_init_entries(w, self_ino, parent_ino, allocOk) ==
    IF w.pi.log_head # 0 THEN [w |-> w, errval |-> -22]
    ELSE DirInitEntries(w, pmfs_allocate_inode_log_pages_dir(w, 1, allocOk),
                        self_ino, parent_ino)

\* is_last_dir_entry of pmfs.h: no room for a record header, or an unused slot
is_last_dir_entry(w, curr_p) ==
    \/ ENTRY_LOC(curr_p) + PMFS_DIR_LOG_REC_LEN(0) > LAST_ENTRY
    \/ EntryAt(w, curr_p).name_len = 0

pmfs_replay_add_entry(w, entry, curr_p, nodeOk) ==
    IF entry.name_len = 0 THEN [w |-> w, errval |-> -22]
    ELSE pmfs_insert_dir_node_by_name(w, entry.ino, entry.name, curr_p, nodeOk)

pmfs_replay_remove_entry(w, entry) ==
    [w |-> pmfs_remove_dir_node_by_name(w, entry.name), errval |-> 0]

\* one round of the loop of pmfs_rebuild_dir_inode_tree for the record at curr_p
DirReplayEntry(w, curr_p, nodeOk) ==
    IF EntryAt(w, curr_p).ino > 0
    THEN pmfs_replay_add_entry(w, EntryAt(w, curr_p), curr_p, nodeOk)
    ELSE pmfs_replay_remove_entry(w, EntryAt(w, curr_p))

\* where the round starts: the next page when curr_p ends its page
DirReplayPos(w, curr_p) ==
    IF ~IsEntryAddr(curr_p) \/ is_last_dir_entry(w, curr_p)
    THEN next_log_page(w, curr_p)
    ELSE curr_p

\* the loop of pmfs_rebuild_dir_inode_tree from position p of the round on; a
\* record of a type other than DIR_LOG is reported (PMFS_ASSERT prints) and
\* replayed all the same; a failed replay ends the loop
RECURSIVE DirReplayFrom(_, _, _, _)
DirReplayFrom(w, p, nodeOk, fuel) ==
    IF p = 0 THEN [w |-> Flag(w, "BUG"), curr_p |-> 0, ret |-> 0]
    ELSE IF fuel = 0 THEN [w |-> Flag(w, "replay_cycle"), curr_p |-> p, ret |-> 0]
    ELSE IF DirReplayEntry(w, p, nodeOk).errval # 0
    THEN [w |-> w, curr_p |-> p, ret |-> DirReplayEntry(w, p, nodeOk).errval]
    ELSE IF p + EntryAt(w, p).de_len = w.pi.log_tail
    THEN [w |-> DirReplayEntry(w, p, nodeOk).w, curr_p |-> w.pi.log_tail, ret |-> 0]
    ELSE DirReplayFrom(DirReplayEntry(w, p, nodeOk).w,
                       DirReplayPos(w, p + EntryAt(w, p).de_len), nodeOk, fuel - 1)

\* the whole inode is flushed once the loop has ended
DirRebuilt(r) ==
    IF r.w.err # {} THEN r
    ELSE [r EXCEPT !.w = pmfs_flush_buffer(@, LogHeadLine \cup {Unit("line0", 0)}, TRUE)]

\* pmfs_rebuild_dir_inode_tree: the index is emptied and the log replayed from
\* log_head until curr_p meets log_tail; times, size and link count that the
\* records carry are not part of the state
pmfs_rebuild_dir_inode_tree(w, nodeOk) ==
    IF w.pi.log_head = 0 THEN [w |-> Flag(w, "BUG"), curr_p |-> 0, ret |-> 0]
    ELSE IF w.pi.log_head = w.pi.log_tail
    THEN DirRebuilt([w |-> [w EXCEPT !.dt = {}], curr_p |-> w.pi.log_head, ret |-> 0])
    ELSE DirRebuilt(DirReplayFrom([w EXCEPT !.dt = {}], DirReplayPos(w, w.pi.log_head),
                                  nodeOk, NumBlocks * (ENTRIES_PER_PAGE + 1)))

\* the caller of pmfs_add_entry / pmfs_remove_entry publishes the tail handed back
DirPublish(r, op, name) ==
    /\ Install(IF r.curr_entry = 0 THEN r.w ELSE pmfs_update_tail(r.w, r.new_tail))
    /\ last' = [op |-> op, ok |-> r.curr_entry # 0, allocFailed |-> r.curr_entry = 0,
                curr_p |-> r.curr_entry, name |-> name, ins |-> r.ins, ret |-> r.ret]

\* mkdir builds the index of the new directory from its log
DirInitDone(r) ==
    /\ Install(IF r.errval = 0 THEN pmfs_rebuild_dir_inode_tree(r.w, TRUE).w ELSE r.w)
    /\ last' = [op |-> "dirinit", ok |-> r.errval = 0, allocFailed |-> r.errval = -12]

\* mkdir: the fresh directory gets its "." and ".." records
DirInit(allocOk) ==
    /\ Ready
    /\ pi.i_mode = "dir"
    /\ DirInitDone(pmfs_append_dir_init_entries(World, 2, 1, allocOk))
    /\ ops' = ops - 1
    /\ UNCHANGED rest
    /\ UNCHANGED ref

\* create or link: pmfs_add_entry, then the caller publishes the tail it got back
DirAdd(name, ino, allocOk, nodeOk) ==
    /\ Ready
    /\ pi.i_mode = "dir"
    /\ ino # 0
    /\ DirRoom(World, PMFS_DIR_LOG_REC_LEN(NameLen(name)))
    /\ DirPublish(pmfs_add_entry(World, name, ino, pi.log_tail, allocOk, nodeOk), "diradd", name)
    /\ ops' = ops - 1
    /\ UNCHANGED rest
    /\ UNCHANGED ref

\* unlink: pmfs_remove_entry, then the caller publishes the tail
DirRemove(name, allocOk) ==
    /\ Ready
    /\ pi.i_mode = "dir"
    /\ DirRoom(World, PMFS_DIR_LOG_REC_LEN(NameLen(name)))
    /\ DirPublish(pmfs_remove_entry(World, name, pi.log_tail, allocOk), "dirremove", name)
    /\ ops' = ops - 1
    /\ UNCHANGED rest
    /\ UNCHANGED ref

\* the directory is read in again after a clean unmount: its index is rebuilt
\* from the log; steady is the index the operations had maintained
DirMounted(r) ==
    /\ Install(r.w)
    /\ last' = [op |-> "dirmount", steady |-> dir_tree, curr_p |-> r.curr_p, ret |-> r.ret]

DirMount(nodeOk) ==
    /\ err = {}
    /\ hw.mode = "off"
    /\ pi.i_mode = "dir"
    /\ pi.log_head # 0
    /\ DirMounted(pmfs_rebuild_dir_inode_tree(World, nodeOk))
    /\ ctx' = [pos |-> 0]
    /\ UNCHANGED <<ref, ops, sbvars>>

(***************************************************************************)
(* pmfs_readdir.  A call emits entries in hash order until dir_emit has no  *)
(* room left; room is the number of entries the caller's buffer takes.     *)
(***************************************************************************)
READDIR_END == 1

\* a NULL node pointer; node is the first member of struct pmfs_dir_node, so
\* &curr->node of a NULL curr is NULL as well
NoNode == [ino |-> 0, hash |-> -1, nvmm |-> 0]

pmfs_find_dir_node_by_name(w, name) ==
    IF \E n \in w.dt : n.hash = BKDRHash(name)
    THEN CHOOSE n \in w.dt : n.hash = BKDRHash(name)
    ELSE NoNode

rb_first(dt) ==
    IF dt = {} THEN NoNode ELSE CHOOSE n \in dt : \A m \in dt : n.hash <= m.hash

rb_next(dt, n) ==
    IF \A m \in dt : m.hash <= n.hash THEN NoNode
    ELSE CHOOSE m \in dt : m.hash > n.hash /\ \A k \in dt : k.hash > n.hash => m.hash <= k.hash

\* the DRAM header of the child inode; every inode the index names has one
pmfs_find_info_header(w, ino) == ino # 0

\* the while loop of pmfs_readdir from node temp on
RECURSIVE ReaddirLoop(_, _, _, _)
ReaddirLoop(w, temp, room, emitted) ==
    IF temp = NoNode THEN [pos |-> READDIR_END, emitted |-> emitted, bug |-> FALSE]
    ELSE IF temp.nvmm = 0 THEN [pos |-> 0, emitted |-> emitted, bug |-> TRUE]
    ELSE IF temp.ino # 0 /\ ~pmfs_find_info_header(w, temp.ino)
    THEN [pos |-> READDIR_END, emitted |-> emitted, bug |-> FALSE]
    ELSE IF temp.ino # 0 /\ Len(emitted) = room
    THEN [pos |-> temp.nvmm, emitted |-> emitted, bug |-> FALSE]
    ELSE ReaddirLoop(w, rb_next(w.dt, temp), room,
                     IF temp.ino # 0
                     THEN Append(emitted, EntryAt(w, temp.nvmm).name)
                     ELSE emitted)

pmfs_readdir(w, pos, room) ==
    IF pos = 0 THEN ReaddirLoop(w, rb_first(w.dt), room, <<>>)
    ELSE IF pos = READDIR_END THEN [pos |-> pos, emitted |-> <<>>, bug |-> FALSE]
    ELSE ReaddirLoop(w, pmfs_find_dir_node_by_name(w, EntryAt(w, pos).name), room, <<>>)

ReaddirDone(r, room) ==
    /\ ctx' = [pos |-> r.pos]
    /\ err' = IF r.bug THEN err \cup {"BUG"} ELSE err
    /\ last' = [op |-> "readdir", pos0 |-> ctx.pos, room |-> room, emitted |-> r.emitted]

\* getdents on the open directory with a buffer of room entries
Readdir(room) ==
    /\ err = {}
    /\ hw.mode = "off"
    /\ pi.i_mode = "dir"
    /\ ctx.pos \in {0, READDIR_END} \/ IsEntryAddr(ctx.pos)
    /\ ReaddirDone(pmfs_readdir(World, ctx.pos, room), room)
    /\ UNCHANGED <<pi, mem, blk, nodes, meta, ref, ops, dir_tree, hw, sbvars>>

(***************************************************************************)
(* The memory system.  hw.cv is NVMM as the caches show it, hw.pm what has  *)
(* reached the medium, hw.pend the units flushed since the last barrier.   *)
(* A flushed line is on the medium at the next barrier; any line holding   *)
(* new data may be written back earlier.                                   *)
(***************************************************************************)
Get(img, u) ==
    CASE u.t = "ent" -> img.mem[pmfs_get_blocknr(u.a)].entries[ENTRY_LOC(u.a) \div ENTRY_SIZE]
      [] u.t = "next" -> img.mem[u.a].next_page
      [] OTHER -> img[u.t]

Put(img, u, v) ==
    CASE u.t = "ent" ->
           [img EXCEPT !.mem[pmfs_get_blocknr(u.a)].entries[ENTRY_LOC(u.a) \div ENTRY_SIZE] = v]
      [] u.t = "next" -> [img EXCEPT !.mem[u.a].next_page = v]
      [] OTHER -> [img EXCEPT ![u.t] = v]

AllUnits ==
    {Unit(t, 0) : t \in {"log_head", "log_tail", "log_pages", "line0"}}
    \cup {Unit("next", b) : b \in Blocks}
    \cup {Unit("ent", pmfs_get_block_off(b) + i * ENTRY_SIZE) : b \in Blocks, i \in EntryIdx}

DirtyUnits == {u \in AllUnits : Get(hw.cv, u) # Get(hw.pm, u)}

RECURSIVE PersistAll(_, _, _)
PersistAll(pmimg, cvimg, us) ==
    IF us = {} THEN pmimg
    ELSE LET u == CHOOSE x \in us : TRUE
         IN PersistAll(Put(pmimg, u, Get(cvimg, u)), cvimg, us \ {u})

\* the next store, flush or barrier of the running operation takes effect
Hw ==
    /\ hw.mode = "run"
    /\ hw.todo # <<>>
    /\ LET e == Head(hw.todo)
           h == [hw EXCEPT !.todo = Tail(@)]
       IN hw' = CASE e.k = "st" -> [h EXCEPT !.cv = Put(@, e.u, e.v)]
                  [] e.k = "zero" -> [h EXCEPT !.cv.mem[e.b] = ZeroPage,
                                               !.pm.mem[e.b] = ZeroPage]
                  [] e.k = "flush" -> [h EXCEPT !.pend = @ \cup e.us]
                  [] e.k = "fence" -> [h EXCEPT !.pm = PersistAll(@, h.cv, h.pend),
                                                !.pend = {}]
    /\ UNCHANGED <<pi, mem, blk, nodes, meta, err, ref, last, ops, dir_tree>>
    /\ UNCHANGED rest

\* a cache line with new data reaches the medium on its own
Writeback ==
    /\ hw.mode = "run"
    /\ \E u \in DirtyUnits : hw' = [hw EXCEPT !.pm = Put(@, u, Get(hw.cv, u))]
    /\ UNCHANGED <<pi, mem, blk, nodes, meta, err, ref, last, ops, dir_tree>>
    /\ UNCHANGED rest

\* pmfs_rebuild_inode_tree: replay of the file log from log_head to log_tail
RebuildNext(w1, curr_p) ==
    IF is_last_entry(curr_p + ENTRY_SIZE)
    THEN next_log_page(w1, curr_p + ENTRY_SIZE)
    ELSE curr_p + ENTRY_SIZE

RECURSIVE RebuildLoop(_, _, _)
RebuildLoop(w, curr_p, fuel) ==
    IF w.err # {} THEN w
    ELSE IF curr_p = w.pi.log_tail THEN w
    ELSE IF curr_p = 0 THEN Flag(w, "BUG")
    ELSE IF fuel = 0 THEN Flag(w, "replay_cycle")
    ELSE IF ~IsEntryAddr(curr_p) THEN Flag(w, "wild_read")
    ELSE RebuildLoop(IF EntryAt(w, curr_p).num_pages # GET_INVALID(EntryAt(w, curr_p).block)
                     THEN pmfs_assign_blocks(w, EntryAt(w, curr_p).pgoff,
                                             EntryAt(w, curr_p).num_pages, curr_p, TRUE).w
                     ELSE w,
                     RebuildNext(w, curr_p), fuel - 1)

pmfs_rebuild_inode_tree(w) ==
    RebuildLoop([w EXCEPT !.pi.height = 0], w.pi.log_head,
                NumBlocks * (ENTRIES_PER_PAGE + 1))

\* what a mount after power loss starts from: NVMM as it reached the medium, no
\* DRAM block map
AfterCrash ==
    [pi |-> [log_head |-> hw.pm.log_head, log_tail |-> hw.pm.log_tail,
             log_pages |-> hw.pm.log_pages, root |-> hw.pm.line0.root,
             height |-> hw.pm.line0.height, i_blocks |-> hw.pm.line0.i_blocks,
             i_size |-> hw.pm.line0.i_size, i_dtime |-> hw.pm.line0.i_dtime,
             i_mode |-> pi.i_mode, i_blk_type |-> pi.i_blk_type, i_flags |-> pi.i_flags],
     mem |-> hw.pm.mem, blk |-> blk,
     nodes |-> [m \in Metas |-> ZeroNode], meta |-> [m \in Metas |-> "free"],
     err |-> {}, dt |-> {}, tr |-> <<>>, rh |-> {}, mfuel |-> NumMeta]

Mounted(w) ==
    /\ pi' = w.pi
    /\ mem' = w.mem
    /\ blk' = w.blk
    /\ nodes' = w.nodes
    /\ meta' = w.meta
    /\ err' = w.err
    /\ dir_tree' = w.dt

\* power loss at any moment, then the mount replays the log of the file
CrashRecover ==
    /\ hw.mode = "run"
    /\ pi.i_mode = "reg"
    /\ Mounted(pmfs_rebuild_inode_tree(AfterCrash))
    /\ hw' = [hw EXCEPT !.mode = "recovered", !.cv = hw.pm, !.pend = {}, !.todo = <<>>,
                        !.lost = hw.todo]
    /\ UNCHANGED <<ref, last, ops>>
    /\ UNCHANGED rest

\* the file after a clean unmount: the DRAM block map is gone
Unmounted(w) ==
    [w EXCEPT !.nodes = [m \in Metas |-> ZeroNode], !.meta = [m \in Metas |-> "free"],
              !.pi.root = 0]

\* the file is read in again: the mount rebuilds its block map from the log
FileMount ==
    /\ err = {}
    /\ hw.mode = "off"
    /\ pi.i_mode = "reg"
    /\ pi.i_dtime = 0
    /\ pi.log_head # 0
    /\ Install(pmfs_rebuild_inode_tree(Unmounted(World)))
    /\ last' = [op |-> "mount"]
    /\ UNCHANGED <<ref, ops>>
    /\ UNCHANGED rest

Next ==
    \/ \E pgoff \in 0..MaxBlk, num \in 1..MaxNum, allocOk \in BOOLEAN :
          Write(pgoff, num, allocOk)
    \/ \E newsize \in SizeChoices : Truncate(newsize)
    \/ Evict

Spec == Init /\ [][Next]_vars

InitCrash == \E mode \in {"reg", "dir"} : InitState(InitInode(mode, "4K"), "run", MaxCrashOps)

NextCrash ==
    \/ \E pgoff \in 0..CrashMaxBlk, allocOk \in BOOLEAN : Write(pgoff, 1, allocOk)
    \/ \E allocOk \in BOOLEAN : DirInit(allocOk)
    \/ \E name \in DirNames, ino \in Inos, allocOk \in BOOLEAN, nodeOk \in BOOLEAN :
          DirAdd(name, ino, allocOk, nodeOk)
    \/ \E name \in DirNames, allocOk \in BOOLEAN : DirRemove(name, allocOk)
    \/ Hw
    \/ Writeback
    \/ CrashRecover

SpecCrash == InitCrash /\ [][NextCrash]_vars

\* The log under repeated overwrites of a small file: long enough runs for garbage
\* collection to meet dead pages before, at and after the head of the chain.
InitLog == InitState(InitInode("reg", "4K"), "off", MaxLogOps)

NextLog ==
    \/ \E pgoff \in 0..LogMaxBlk, allocOk \in BOOLEAN : Write(pgoff, 1, allocOk)
    \/ Truncate(0)

SpecLog == InitLog /\ [][NextLog]_vars

\* A regular file of the large block type under the operations of Next.
InitBlk == InitState(InitInode("reg", "2M"), "off", MaxOps)

SpecBlk == InitBlk /\ [][Next]_vars

\* A regular file written and read in again at any point.
NextMount ==
    \/ \E pgoff \in 0..MaxBlk, num \in 1..MaxNum, allocOk \in BOOLEAN :
          Write(pgoff, num, allocOk)
    \/ FileMount

SpecMount == Init /\ [][NextMount]_vars

\* A directory under mkdir, create, unlink and the creation of a name that is
\* there already, read in again at any point.
DirInos == {5, 6}

InitDir == InitState(InitInode("dir", "4K"), "off", MaxDirOps)

NextDir ==
    \/ \E allocOk \in BOOLEAN : DirInit(allocOk)
    \/ \E name \in DirNames, ino \in DirInos, allocOk \in BOOLEAN, nodeOk \in BOOLEAN :
          DirAdd(name, ino, allocOk, nodeOk)
    \/ \E name \in DirNames, allocOk \in BOOLEAN : DirRemove(name, allocOk)
    \/ \E nodeOk \in BOOLEAN : DirMount(nodeOk)
    \/ \E room \in 1..MaxRoom : Readdir(room)

SpecDir == InitDir /\ [][NextDir]_vars

\* Trees up to the height limit: a regular file written far into the file and
\* truncated, and the inode table, each with the meta block allocator failing
\* at any point.
TallBlocks == {0, FANOUT, FANOUT ^ 2, FANOUT ^ 3 - 1, FANOUT ^ 3, FANOUT ^ 3 + 1}

TallSizes == {b * PAGE_SIZE : b \in {0, 1, FANOUT, FANOUT ^ 2, FANOUT ^ 3 - 1}}

TableSizes == {1, FANOUT, FANOUT ^ 3 - 1, FANOUT ^ 3, FANOUT ^ 3 + 1}

MetaFuel == {0, 1, 2, NumMeta}

InitTall ==
    \/ InitState(InitInode("reg", "4K"), "off", MaxTallOps)
    \/ InitState(InitInode("table", "4K"), "off", MaxTableOps)

NextTall ==
    \/ \E pgoff \in TallBlocks, fuel \in MetaFuel : WriteFar(pgoff, fuel)
    \/ \E newsize \in TallSizes : pi.i_mode = "reg" /\ Truncate(newsize)
    \/ \E num_blocks \in TableSizes, fuel \in MetaFuel : TableInit(num_blocks, fuel)
    \/ \E fuel \in MetaFuel : TableGrow(fuel)

SpecTall == InitTall /\ [][NextTall]_vars


(***************************************************************************)
(* Observers used by the properties below.                                 *)
(***************************************************************************)
LogBlocks == {b \in Blocks : blk[b] = "log"}

\* the addresses of the entry slots of the log pages
LogEntryAddrs == {pmfs_get_block_off(b) + i * ENTRY_SIZE : b \in LogBlocks, i \in EntryIdx}

\* walking memory m from p (entry by entry, along next_page at a page end, over
\* the pages in ok) arrives at tail
RECURSIVE WalkReaches(_, _, _, _, _)
WalkReaches(m, ok, p, tail, fuel) ==
    IF p = tail THEN TRUE
    ELSE IF fuel = 0 \/ pmfs_get_blocknr(p) \notin ok THEN FALSE
    ELSE IF ENTRY_LOC(p) >= LAST_ENTRY
    THEN WalkReaches(m, ok, m[pmfs_get_blocknr(p)].next_page, tail, fuel - 1)
    ELSE WalkReaches(m, ok, p + ENTRY_SIZE, tail, fuel - 1)

WalkFuel == NumBlocks * (ENTRIES_PER_PAGE + 2)

NoDuplicates(seq) == \A i, j \in 1..Len(seq) : i # j => seq[i] # seq[j]

RECURSIVE KeepLive(_, _)
KeepLive(seq, dead) ==
    IF seq = <<>> THEN <<>>
    ELSE IF Head(seq) \in dead THEN KeepLive(Tail(seq), dead)
    ELSE <<Head(seq)>> \o KeepLive(Tail(seq), dead)

NewPages(new_block, n) == [i \in 1..n |-> new_block + (i - 1) * PAGE_SIZE]

GCRan == last.op = "write" /\ last.gc.ran

\* the number of leaf slots (or the height-0 root) holding the entry at p
SlotsHolding(p) == Cardinality({b \in 0..MaxBlk : LeafSlot(World, b) = p})

(***************************************************************************)
(* Properties.                                                             *)
(***************************************************************************)

\* C3: log_head is zero exactly when log_tail is zero, in every state of the inode.
C3_HeadZeroIffTailZero == (pi.log_head = 0) <=> (pi.log_tail = 0)

\* C4: with log_tail # 0, the walk from log_head (by entry, along next_page at a
\* page end) arrives at log_tail, and after a garbage collection the new pages are
\* on the chain that starts at log_head.
C4_WalkReachesTail ==
    (err = {} /\ pi.i_dtime = 0 /\ pi.log_tail # 0) =>
        /\ WalkReaches(mem, LogBlocks, pi.log_head, pi.log_tail, WalkFuel)
        /\ GCRan => last.gc.new_block \in Range(ChainFrom(World, pi.log_head))

\* C5: garbage collection does not free the page that holds log_tail when it
\* starts, and that page stays on the chain.
C5_TailPageKept ==
    GCRan =>
        /\ BLOCK_OFF(last.gc.old_tail) \notin Range(last.gc.freed)
        /\ BLOCK_OFF(last.gc.old_tail) \in Range(ChainFrom(World, pi.log_head))

\* C6: garbage collection frees exactly the pages all of whose entries are fully
\* invalidated, each once; the other pages stay chained in their order between the
\* new log_head and the new pages.
C6_GCFreesExactlyDeadPages ==
    GCRan =>
        /\ Range(last.gc.freed) = last.gc.dead
        /\ NoDuplicates(last.gc.freed)
        /\ "double_free" \notin err
        /\ ChainFrom(World, pi.log_head) =
               KeepLive(last.gc.chain, last.gc.dead)
                   \o NewPages(last.gc.new_block, last.gc.num_pages)

Min(a, b) == IF a <= b THEN a ELSE b

\* the blocks of pgoff..pgoff+num-1 whose leaf slot held the entry at p before the step
SlotsTaken(p, pgoff, num) ==
    Cardinality({b \in pgoff..(pgoff + num - 1) : LeafSlot(World, b) = p})

\* what a write of pgoff..pgoff+num-1 does to the entry old at p that held the slot of b
Superseded(old, new, p, pgoff, num, b) ==
    /\ new.pgoff = old.pgoff /\ new.num_pages = old.num_pages
    /\ BLOCK_OFF(new.block) = BLOCK_OFF(old.block)
    /\ GET_INVALID(new.block) =
           Min(GET_INVALID(old.block) + SlotsTaken(p, pgoff, num), COUNTER_LIMIT)
    /\ blk'[pmfs_get_blocknr(old.block) + (b - old.pgoff)] = "free"

AssignedOver(p, pgoff, num, b) ==
    p # 0 => Superseded(EntryAt(World, p), EntryAt(World', p), p, pgoff, num, b)

AssignStep(curr_p, pgoff, num) ==
    \A b \in pgoff..(pgoff + num - 1) :
        /\ LeafSlot(World', b) = curr_p
        /\ AssignedOver(LeafSlot(World, b), pgoff, num, b)

\* C9: a write that succeeds leaves its entry's offset in every leaf slot of its
\* range; every entry that held one of these slots keeps its extent, has its counter
\* raised by the number of slots it lost (up to the counter's limit), and the data
\* block it held for the slot is free.  So a one-block entry overwritten by a
\* one-block write ends with counter = num_pages and no slot.
C9_AssignSupersedes ==
    [][(ops' # ops /\ last'.op = "write" /\ last'.ok /\ err' = {}) =>
          AssignStep(last'.curr_p, last'.pgoff, last'.num)]_vars

\* three successful one-block writes of the same block, and nothing else, happened:
\* two entries of that block are dead and the third holds the slot
C9_Witness ==
    /\ last.op = "write" /\ last.ok /\ last.num = 1 /\ err = {}
    /\ ops = MaxOps - 3
    /\ LeafSlot(World, last.pgoff) = last.curr_p
    /\ Cardinality({p \in LogEntryAddrs :
                       /\ EntryAt(World, p).pgoff = last.pgoff
                       /\ EntryAt(World, p).num_pages = 1
                       /\ GET_INVALID(EntryAt(World, p).block) = 1
                       /\ SlotsHolding(p) = 0}) = 2

\* the written file entries of the log pages
FileEntries == {p \in LogEntryAddrs : EntryAt(World, p).num_pages > 0}

Counter(p) == GET_INVALID(EntryAt(World, p).block)

\* the pages of the entry at p that were overwritten or truncated
DeadPages(p) == EntryAt(World, p).num_pages - SlotsHolding(p)

LogShape(w) == [log_head |-> w.pi.log_head, log_tail |-> w.pi.log_tail,
                log_pages |-> w.pi.log_pages,
                next |-> [b \in Blocks |-> w.mem[b].next_page]]

\* C7: an append whose log-page allocation fails reports the failure to its caller
\* (it does not stop in BUG()) and leaves log_head, log_tail, log_pages and every
\* next_page link as they were.
C7_FailedAppendKeepsLog ==
    [][(ops' # ops /\ last'.op \in {"write", "dirinit", "diradd", "dirremove"}
           /\ last'.allocFailed) =>
          /\ ~last'.ok
          /\ "BUG" \notin err'
          /\ LogShape(World') = LogShape(World)]_vars

\* the stores the power loss cut off include one to unit type t
LostStore(t) == \E i \in 1..Len(hw.lost) : hw.lost[i].k = "st" /\ hw.lost[i].u.t = t

\* the mount after a power loss that hit the first write of a new file (block 0,
\* one page) once its entry was on the medium and before log_tail was stored
CrashBeforeTail ==
    /\ hw.mode = "recovered"
    /\ ops = MaxCrashOps - 1
    /\ last.op = "write" /\ last.ok /\ last.pgoff = 0 /\ last.num = 1
    /\ Get(hw.pm, Unit("ent", last.curr_p)).num_pages = 1
    /\ LostStore("log_tail")

\* C2: after that mount the inode has log_tail = 0, size 0 and no blocks, and the
\* block map does not hold the entry.
C2_UnpublishedEntryNotReplayed ==
    CrashBeforeTail =>
        /\ pi.log_tail = 0
        /\ pi.i_size = 0
        /\ pi.i_blocks = 0
        /\ LeafSlot(World, 0) = 0
        /\ pmfs_find_data_block(World, 0) = 0

\* the entry addresses a walk of image img meets from p up to tail
RECURSIVE Published(_, _, _, _)
Published(img, p, tail, fuel) ==
    IF p = tail \/ p = 0 \/ fuel = 0 \/ pmfs_get_blocknr(p) \notin Blocks THEN {}
    ELSE IF ENTRY_LOC(p) >= LAST_ENTRY
    THEN Published(img, img.mem[pmfs_get_blocknr(p)].next_page, tail, fuel - 1)
    ELSE {p} \cup Published(img, p + ENTRY_SIZE, tail, fuel - 1)

\* the entries between log_head and log_tail as the medium holds them
PmEntries ==
    IF hw.pm.log_head = 0 \/ hw.pm.log_tail = 0 THEN {}
    ELSE Published(hw.pm, hw.pm.log_head, hw.pm.log_tail, WalkFuel)

\* an entry without the invalidation counter
Body(e) == [e EXCEPT !.block = BLOCK_OFF(@)]

Written(e) == e.num_pages > 0 \/ (e.entry_type = DIR_LOG /\ e.de_len > 0)

\* the medium holds at p all of the entry the operation wrote there
Complete(p) ==
    /\ Written(EntryAt(World, p))
    /\ Body(Get(hw.pm, Unit("ent", p))) = Body(EntryAt(World, p))

\* C1: whenever power may be lost, every entry between log_head and log_tail as
\* the medium holds them is complete: the tail is stored only after the entry was
\* written, flushed and fenced.
C1_PublishedEntriesComplete ==
    hw.mode = "run" => \A p \in PmEntries : Complete(p)

\* a directory entry is half on the medium, just past the persisted tail, while
\* the entries before the tail are there
C1_Witness ==
    /\ hw.mode = "run"
    /\ pi.i_mode = "dir"
    /\ PmEntries # {}
    /\ IsEntryAddr(hw.pm.log_tail)
    /\ Get(hw.pm, Unit("ent", hw.pm.log_tail)) # ZeroEntry
    /\ ~Complete(hw.pm.log_tail)
\* C11: after a truncate to newsize that completes, find(b) is 0 for every block
\* b > (newsize - 1) / block size (every b when newsize = 0), and find(b) is what
\* it was before the truncate for every b at or below that bound.
C11_TruncateCutsAbove ==
    [][(ops' # ops /\ last'.op = "truncate" /\ err' = {}) =>
          \A b \in 0..MaxBlk :
             pmfs_find_data_block(World', b) =
                IF last'.newsize = 0 \/ b > (last'.newsize - 1) \div PAGE_SIZE THEN 0
                ELSE pmfs_find_data_block(World, b)]_vars

\* a truncate into the middle of block 1 kept blocks 0 and 1 and cut a block above
C11_Witness ==
    /\ last.op = "truncate" /\ err = {}
    /\ last.newsize = PAGE_SIZE + PAGE_SIZE \div 2
    /\ pmfs_find_data_block(World, 0) # 0
    /\ pmfs_find_data_block(World, 1) # 0
    /\ \E p \in FileEntries :
          EntryAt(World, p).pgoff >= 2 /\ Counter(p) >= 1 /\ SlotsHolding(p) = 0

\* the number of leaf slots (or the height-0 root) that are not zero
Leaves == Cardinality({b \in 0..MaxBlk : LeafSlot(World, b) # 0})

\* C12: after any sequence of writes (with overwrites) and truncates, i_blocks is
\* the number of non-zero leaf slots times the filesystem blocks per data block of
\* the inode's block type; an overwrite and a truncate that release the same data
\* block therefore take the same amount off i_blocks.
C12_BlocksCountLeaves ==
    (err = {} /\ pi.i_dtime = 0) => pi.i_blocks = Leaves * 2 ^ DataBlkShift(pi)

\* C13: every update of (root, height) by a write (assign, height growth) or a
\* truncate (height shrink) is one atomic step: a concurrent reader of the inode
\* loads either the pair from before the operation or the pair from after it,
\* never the root of one tree shape with the height of another.
C13_RootHeightAtomic ==
    [][(ops' # ops /\ last'.op \in {"write", "truncate"}) =>
          last'.rh \subseteq {<<pi.root, pi.height>>, <<pi'.root, pi'.height>>}]_vars

\* the block map and the block count of the inode
TreeOf(w) == [root |-> w.pi.root, height |-> w.pi.height, nodes |-> w.nodes,
              meta |-> w.meta, i_blocks |-> w.pi.i_blocks]

\* the request of the last step reached assign or alloc, for blocks first..lastb
TreeRequest(l) ==
    \/ l.op = "write" /\ l.curr_p # 0
    \/ l.op \in {"tableinit", "tablegrow"}

LastBlockOf(l) == IF l.op = "write" THEN l.pgoff + l.num - 1 ELSE l.first + l.num - 1

\* the meta block allocator failed during the last step
MetaAllocFailed(l) == l.mfuel = 0 \/ \A m \in Metas : meta'[m] = "used"

\* C14: an assign or alloc whose last block index is >= fanout^3 fails with ENOSPC
\* and leaves root, height, every tree slot and i_blocks as they were; a request
\* below fanout^3 does not fail unless a block allocation failed; the height is
\* never above 3.
C14_HeightLimit ==
    [][(ops' # ops /\ TreeRequest(last') /\ err' = {}) =>
          /\ LastBlockOf(last') >= FANOUT ^ 3 =>
                (last'.errval = -28 /\ TreeOf(World') = TreeOf(World))
          /\ (LastBlockOf(last') < FANOUT ^ 3 /\ last'.errval # 0) =>
                (MetaAllocFailed(last') \/ FreeRuns(World', 1) = {})
          /\ pi'.height <= 3]_vars

\* a write at block fanout^3 was refused while the tree has height 3
C14_Witness ==
    /\ last.op = "write" /\ last.curr_p # 0 /\ err = {}
    /\ last.pgoff = FANOUT ^ 3 /\ last.errval = -28
    /\ pi.height = 3 /\ pi.root # 0

\* C15: when a meta block allocation fails while the height is being increased (the
\* request fails and the tree is still too short for its last block), root and
\* height are the values they had before the operation.
C15_FailedGrowthKeepsRoot ==
    [][(/\ ops' # ops /\ TreeRequest(last') /\ err' = {}
        /\ last'.errval # 0
        /\ LastBlockOf(last') < FANOUT ^ 3
        /\ FANOUT ^ pi'.height <= LastBlockOf(last')) =>
          (pi'.root = pi.root /\ pi'.height = pi.height)]_vars

\* the blocks of the file that a leaf slot (or the height-0 root) maps
Mapped == {b \in 0..(FANOUT ^ 3 - 1) : LeafSlot(World, b) # 0}

HighestUsed == CHOOSE b \in Mapped : \A c \in Mapped : c <= b

\* the least h in 0..3 with fanout^h >= n
MinHeight(n) == CHOOSE h \in 0..3 : FANOUT ^ h >= n /\ \A g \in 0..3 : FANOUT ^ g >= n => h <= g

\* C16: in every state of an inode with a mapped block, height is the least h in
\* 0..3 with fanout^h >= highest used block + 1, after growth and after shrink,
\* also for a sparse file whose highest mapped block is below the block of its size.
C16_HeightMinimal ==
    (err = {} /\ pi.i_dtime = 0 /\ Mapped # {}) => pi.height = MinHeight(HighestUsed + 1)

\* the number of data blocks that hold size bytes
BlocksOfSize(size) == (size + pmfs_inode_blk_size(pi) - 1) \div pmfs_inode_blk_size(pi)

\* C16, amended: the height is never below the least h with fanout^h >= highest
\* used block + 1; an assign or alloc that succeeds leaves the larger of the old
\* height and the least h for the last block of the request; a truncate that frees
\* blocks and leaves some leaves the least h for the last block of the new size,
\* which for a sparse file can be more than the mapped blocks need.
C16_HeightByRequestAndSize ==
    [][(ops' # ops /\ err' = {}) =>
          /\ \A b \in 0..(FANOUT ^ 3 - 1) :
                LeafSlot(World', b) # 0 => FANOUT ^ pi'.height >= b + 1
          /\ (TreeRequest(last') /\ last'.errval = 0) =>
                pi'.height = Max(pi.height, MinHeight(LastBlockOf(last') + 1))
          /\ (last'.op = "truncate" /\ pi'.i_blocks < pi.i_blocks /\ pi'.i_blocks # 0) =>
                pi'.height = MinHeight(BlocksOfSize(last'.newsize))]_vars

\* a truncate cut the far block of a sparse file: the tree is taller than the
\* one mapped block needs
C16_Witness ==
    /\ last.op = "truncate" /\ err = {}
    /\ last.newsize = FANOUT ^ 2 * PAGE_SIZE
    /\ Mapped = {0}
    /\ pi.height = 2
    /\ pi.i_blocks = 1
    /\ \E p \in FileEntries :
          EntryAt(World, p).pgoff = FANOUT ^ 2 /\ Counter(p) >= 1 /\ SlotsHolding(p) = 0

\* the inode owns no data block (no block of the file is mapped) and no meta block
OwnsNothing == Mapped = {} /\ (\A m \in Metas : meta[m] = "free")

\* C17: in every state of an inode, root = 0 iff i_blocks = 0 iff the inode owns
\* no data block and no meta block; no operation frees the root block and leaves
\* root non-zero.
C17_RootZeroIffNoBlocks ==
    (err = {} /\ pi.i_dtime = 0 /\ pi.i_mode # "dir") =>
        /\ (pi.root = 0) <=> (pi.i_blocks = 0)
        /\ (pi.i_blocks = 0) <=> OwnsNothing
        /\ (pi.height > 0 /\ pi.root # 0) => (pi.root \in Metas /\ meta[pi.root] = "used")

\* the subtree of height levels below slot value bp holds a non-zero leaf, and so
\* does the subtree below each of its non-zero slots
RECURSIVE SubtreeLive(_, _, _)
SubtreeLive(w, bp, height) ==
    IF height = 0 THEN bp # 0
    ELSE /\ bp \in Metas
         /\ \E s \in Slots : w.nodes[bp][s] # 0
         /\ \A s \in Slots : w.nodes[bp][s] # 0 => SubtreeLive(w, w.nodes[bp][s], height - 1)

\* C18: after every completed assign, alloc or truncate, also one that returned
\* an error, every interior node reachable from root has a non-zero slot and a
\* parent slot is non-zero only if the subtree below it holds a non-zero leaf.
C18_NoEmptyInterior ==
    (err = {} /\ pi.i_dtime = 0 /\ pi.root # 0 /\ pi.height > 0) =>
        SubtreeLive(World, pi.root, pi.height)

\* C19: for every directory and every sequence of add, remove and re-add of a
\* name that exists, the index that pmfs_rebuild_dir_inode_tree builds from the
\* log between log_head and log_tail holds the same (name hash, ino, log entry
\* offset) nodes as the index the operations maintained, and the replay has
\* processed every record up to log_tail.
C19_ReplayEqualsSteady ==
    (last.op = "dirmount" /\ err = {}) =>
        (dir_tree = last.steady /\ last.curr_p = pi.log_tail)

\* C20: for every regular file, the block map rebuilt from the log (reset, then
\* every FILE_WRITE entry whose invalidation counter differs from num_pages
\* assigned again in log order) gives for every block b the same find(b) as the
\* block map the same entries had built at run time; the rebuild runs to its end.
C20_RebuildEqualsRuntime ==
    [][last'.op = "mount" =>
          /\ err' = {}
          /\ \A b \in 0..(FANOUT ^ 3 - 1) :
                pmfs_find_data_block(World', b) = pmfs_find_data_block(World, b)]_vars

\* the name of the last directory operation was in the index before it
NameWasIndexed == \E n \in dir_tree : n.hash = BKDRHash(last'.name)

C22_FailedInsertCompensated ==
    [][(ops' # ops /\ last'.op = "diradd" /\ last'.ok /\ last'.ins # 0) =>
          /\ last'.ret # 0
          /\ pi'.log_tail = last'.curr_p + 2 * PMFS_DIR_LOG_REC_LEN(NameLen(last'.name))
          /\ EntryAt(World', last'.curr_p + PMFS_DIR_LOG_REC_LEN(NameLen(last'.name))).ino = 0
          /\ EntryAt(World', last'.curr_p + PMFS_DIR_LOG_REC_LEN(NameLen(last'.name))).name
                = last'.name]_vars


\* the names now in the index with a live inode, in hash order, that follow
\* hash h
RECURSIVE NamesAfter(_, _)
NamesAfter(w, h) ==
    IF \A n \in w.dt : n.hash <= h THEN <<>>
    ELSE LET m == CHOOSE m \in w.dt :
                      m.hash > h /\ \A k \in w.dt : k.hash > h => m.hash <= k.hash
         IN IF m.ino # 0
            THEN <<EntryAt(w, m.nvmm).name>> \o NamesAfter(w, m.hash)
            ELSE NamesAfter(w, m.hash)

Prefix(s, n) == SubSeq(s, 1, IF Len(s) <= n THEN Len(s) ELSE n)

\* C23: when a readdir call stops with the buffer full, ctx->pos is the
\* address of the log record of the entry emitted last; a resumed call finds
\* the node by the name in the record at ctx->pos and emits the entries that
\* follow it in hash order.
C23_PosIsLastEmitted ==
    [][(last'.op = "readdir" /\ <<last, ctx>>' # <<last, ctx>> /\ err' = {}) =>
          /\ (ctx'.pos \notin {0, READDIR_END} /\ last'.emitted # <<>>) =>
                ctx'.pos = pmfs_find_dir_node_by_name(
                               World, last'.emitted[Len(last'.emitted)]).nvmm
          /\ ctx.pos \notin {0, READDIR_END} =>
                last'.emitted =
                    Prefix(NamesAfter(World, BKDRHash(EntryAt(World, ctx.pos).name)),
                           last'.room)]_vars


(***************************************************************************)
(* Operations on the superblock side, as lists of steps.                   *)
(***************************************************************************)
SbWorld == [sbi |-> sbi, tbl |-> tbl, nv |-> nv, thr |-> thr]

Ev(k, a, b, c) == [a |-> a, k |-> k, b |-> b, c |-> c]
Lock(m) == Ev("lock", m, 0, 0)
Unlock(m) == Ev("unlock", m, 0, 0)
Fence == Ev("fence", 0, 0, 0)

\* the slot test of pmfs_new_inode with the mode and dtime part left out
FreeByLinks(s) == s.i_links_count = 0

\* the test of pmfs_new_inode for a free slot
IsFreeSlot(s) == s.i_links_count = 0 /\ (s.i_mode = 0 \/ s.i_dtime # 0)

\* the scan loop of pmfs_new_inode from slot i: the first free slot, or
\* num_inodes when there is none
ScanFrom(t, i, num_inodes) ==
    IF \E j \in i..(num_inodes - 1) : IsFreeSlot(t[j])
    THEN CHOOSE j \in i..(num_inodes - 1) :
             IsFreeSlot(t[j]) /\ \A k \in i..(j - 1) : ~IsFreeSlot(t[k])
    ELSE Max(i, num_inodes)

\* pmfs_new_inode from the slot found on: the slot is taken under the mutex,
\* mode and link count are stored by pmfs_update_inode after the unlock
NewInodeFound(i) ==
    <<Ev("claim", i, 0, 0), Unlock(inode_table_mutex), Ev("update_inode", i, 0, 0),
      Ev("insert_inode_locked", i, 0, 0)>>

\* no free slot: pmfs_increase_inode_table_size, the block comes from the allocator
NewInodeGrow == <<Lock(s_lock), Unlock(s_lock), Ev("grow", 0, 0, 0)>>

NewInodeScan(s, i) ==
    IF ScanFrom(s.tbl, i, s.sbi.s_inodes_count) < s.sbi.s_inodes_count
    THEN NewInodeFound(ScanFrom(s.tbl, i, s.sbi.s_inodes_count))
    ELSE NewInodeGrow

\* the stores of pmfs_truncate_add with no barrier between the item and the head
TruncateAddNoBarrier(ino, truncate_size, head_next, in_tx) ==
    <<Ev("st", i_next_truncate(ino), head_next, 0),
      Ev("st", i_truncatesize(ino), truncate_size, 0),
      Ev("flush", {i_next_truncate(ino), i_truncatesize(ino)}, 0, 0),
      Ev("st", head, ino, 0),
      Ev("flush", {head}, 0, 0)>>
    \o (IF in_tx THEN <<>> ELSE <<Fence>>)

\* the stores, flushes and barriers of pmfs_truncate_add for an inode not on the list
TruncateAddStores(ino, truncate_size, head_next, in_tx) ==
    <<Ev("st", i_next_truncate(ino), head_next, 0),
      Ev("st", i_truncatesize(ino), truncate_size, 0),
      Ev("flush", {i_next_truncate(ino), i_truncatesize(ino)}, 0, 0),
      Fence,
      Ev("st", head, ino, 0),
      Ev("flush", {head}, 0, 0)>>
    \o (IF in_tx THEN <<>> ELSE <<Fence>>)

pmfs_truncate_add(ino, truncate_size, in_tx) ==
    <<Lock(s_truncate_lock), Ev("truncate_add", ino, truncate_size, in_tx)>>

OnTruncateList(s, ino) == \E k \in 1..Len(s.sbi.s_truncate) : s.sbi.s_truncate[k] = ino

TruncateAddLocked(s, e) ==
    IF OnTruncateList(s, e.a) THEN <<Unlock(s_truncate_lock)>>
    ELSE TruncateAddStores(e.a, e.b, s.nv.c[head], e.c)
         \o <<Ev("list_add", e.a, 0, 0), Unlock(s_truncate_lock)>>

pmfs_truncate_del(ino) == <<Lock(s_truncate_lock), Ev("truncate_del", ino, 0, 0)>>

\* the unit holding the pointer to ino: the head or the item of the inode in front
PrevUnit(s, ino) ==
    IF s.sbi.s_truncate[1] = ino THEN head
    ELSE i_next_truncate(s.sbi.s_truncate[
             (CHOOSE k \in 1..Len(s.sbi.s_truncate) : s.sbi.s_truncate[k] = ino) - 1])

TruncateDelLocked(s, e) ==
    IF ~OnTruncateList(s, e.a) THEN <<Unlock(s_truncate_lock)>>
    ELSE <<Ev("list_del", e.a, 0, 0), Fence,
           Ev("st", PrevUnit(s, e.a), s.nv.c[i_next_truncate(e.a)], 0),
           Ev("flush", {PrevUnit(s, e.a)}, 0, 0), Fence, Unlock(s_truncate_lock)>>

\* the leaf loops of the block map free n data blocks under s_lock, taking
\* the truncate mutex first
FreeBlocksInTruncate(ino, n) ==
    IF n = 0 THEN <<>>
    ELSE <<Lock(s_truncate_lock), Lock(s_lock)>> \o [k \in 1..n |-> Ev("free_block", ino, 0, 0)]
         \o <<Unlock(s_lock), Unlock(s_truncate_lock)>>

\* the leaf loops of the block map free n data blocks under s_lock
FreeBlocks(ino, n) ==
    IF n = 0 THEN <<>>
    ELSE <<Lock(s_lock)>> \o [k \in 1..n |-> Ev("free_block", ino, 0, 0)] \o <<Unlock(s_lock)>>

\* pmfs_free_inode after the mutex is taken, then the rest of pmfs_evict_inode
FreeInodeLocked(s, e) ==
    IF ~e.b
    THEN <<Unlock(inode_table_mutex)>> \o pmfs_truncate_del(e.a)
         \o <<Ev("clear_inode", e.a, 0, 0)>>
    ELSE <<Ev("free_fields", e.a, 0, 0)>>
         \o (IF s.tbl[e.a].log
             THEN <<Lock(s_lock), Ev("free_log", e.a, 0, 0), Unlock(s_lock)>>
             ELSE <<>>)
         \o <<Ev("free_count", e.a, 0, 0), Unlock(inode_table_mutex)>>
         \o FreeBlocks(e.a, s.tbl[e.a].nblocks)
         \o pmfs_truncate_del(e.a)
         \o <<Ev("clear_inode", e.a, 0, 0)>>

\* the blocks a truncate to newsize blocks frees
ToFree(slot, newsize) == IF slot.nblocks > newsize THEN slot.nblocks - newsize ELSE 0

\* pmfs_notify_change with ATTR_SIZE, the caller holding the lock of the inode
NotifyChangeLocked(s, e) ==
    IF s.tbl[e.a].i_size = e.b THEN <<Unlock(i_mutex(e.a))>>
    ELSE pmfs_truncate_add(e.a, e.b, FALSE)
         \o <<Ev("want", ToFree(s.tbl[e.a], e.b), 0, 0)>>
         \o FreeBlocks(e.a, ToFree(s.tbl[e.a], e.b))
         \o <<Fence, Ev("isize", e.a, e.b, 0)>>
         \o pmfs_truncate_del(e.a)
         \o <<Unlock(i_mutex(e.a))>>

\* unlink of the last name: the link count drops to zero and the inode goes on
\* the truncate list inside the transaction, whose commit is the barrier
UnlinkLocked(s, e) ==
    IF s.tbl[e.a].i_links_count = 0 THEN <<Unlock(i_mutex(e.a))>>
    ELSE <<Ev("nlink", e.a, 0, 0)>> \o pmfs_truncate_add(e.a, s.tbl[e.a].i_size, TRUE)
         \o <<Fence, Unlock(i_mutex(e.a))>>

Without(seq, x) == SelectSeq(seq, LAMBDA y : y # x)

\* the thread, its step taken off the list and steps put in front
Go(s, t, steps) == [s EXCEPT !.thr[t].todo = steps \o Tail(@)]

Persisted(img, c, us) == [u \in TruncateUnits |-> IF u \in us THEN c[u] ELSE img[u]]

\* pmfs_increase_inode_table_size with the outcome of the block allocation
Grown(s, t, ok) ==
    IF ok /\ s.sbi.s_inodes_count + InodesPerBlock <= MaxInodes
    THEN Go([s EXCEPT !.sbi.s_free_inode_hint = s.sbi.s_inodes_count,
                      !.sbi.s_free_inodes_count = @ + InodesPerBlock,
                      !.sbi.s_inodes_count = @ + InodesPerBlock],
            t, <<Ev("rescan", 0, 0, 0)>>)
    ELSE Go(s, t, <<Unlock(inode_table_mutex)>>)

\* the slot is taken: lines 1662 to 1685 of pmfs_new_inode
Claimed(s, t, i) ==
    Go([s EXCEPT !.tbl[i].i_dtime = 0, !.tbl[i].log = FALSE,
                 !.sbi.s_free_inodes_count = @ - 1,
                 !.sbi.s_free_inode_hint =
                     IF i < s.sbi.s_inodes_count - 1 THEN i + 1
                     ELSE PMFS_FREE_INODE_HINT_START,
                 !.thr[t].got = i],
       t, <<>>)

\* ---- the free-inode hint ----

\* the counters of pmfs_free_inode without the hint
FreeCountedNoHint(s, t, inode_nr) ==
    Go([s EXCEPT !.sbi.s_free_inodes_count = @ + 1], t, <<>>)

\* the counters of pmfs_free_inode
FreeCounted(s, t, inode_nr) ==
    Go([s EXCEPT !.sbi.s_free_inode_hint =
                     IF s.sbi.s_free_inodes_count + 1 =
                            s.sbi.s_inodes_count - PMFS_FREE_INODE_HINT_START
                     THEN PMFS_FREE_INODE_HINT_START
                     ELSE IF inode_nr < @ THEN inode_nr ELSE @,
                 !.sbi.s_free_inodes_count = @ + 1],
       t, <<>>)

\* insert_inode_locked fails when the inode cache holds an inode of that number
Inserted(s, t, i) ==
    IF i \in s.sbi.icache THEN Go(s, t, <<>>)
    ELSE Go([s EXCEPT !.sbi.icache = @ \cup {i}, !.sbi.users[i] = @ + 1], t, <<>>)

\* the scan of pmfs_new_inode from slot i; was is the slot as the scan met it
Scanned(s, t, i) ==
    Go([s EXCEPT !.thr[t].i = ScanFrom(s.tbl, i, s.sbi.s_inodes_count),
                 !.thr[t].was = s.tbl[Min(ScanFrom(s.tbl, i, s.sbi.s_inodes_count),
                                          MaxInodes - 1)]],
       t, NewInodeScan(s, i))

\* one step e of thread t
Exec(s, t, e) ==
    CASE e.k = "lock" ->
           Go([s EXCEPT !.sbi.mutex[e.a] = t, !.thr[t].held = Append(@, e.a)], t, <<>>)
      [] e.k = "unlock" ->
           Go([s EXCEPT !.sbi.mutex[e.a] = 0, !.thr[t].held = Without(@, e.a)], t, <<>>)
      [] e.k = "scan" -> Scanned(s, t, s.sbi.s_free_inode_hint)
      [] e.k = "rescan" -> Scanned(s, t, s.thr[t].i)
      [] e.k = "grow" -> Grown(s, t, s.thr[t].arg)
      [] e.k = "claim" -> Claimed(s, t, e.a)
      [] e.k = "update_inode" ->
           Go([s EXCEPT !.tbl[e.a].i_mode = 1, !.tbl[e.a].i_links_count = 1,
                        !.tbl[e.a].i_size = 0],
              t, <<>>)
      [] e.k = "insert_inode_locked" -> Inserted(s, t, e.a)
      [] e.k = "truncate_add" -> Go(s, t, TruncateAddLocked(s, e))
      [] e.k = "truncate_del" -> Go([s EXCEPT !.thr[t].del = TRUE], t, TruncateDelLocked(s, e))
      [] e.k = "st" -> Go([s EXCEPT !.nv.c[e.a] = e.b], t, <<>>)
      [] e.k = "flush" -> Go([s EXCEPT !.nv.pend = @ \cup e.a], t, <<>>)
      [] e.k = "fence" ->
           Go([s EXCEPT !.nv.p = Persisted(@, s.nv.c, s.nv.pend), !.nv.pend = {}], t, <<>>)
      [] e.k = "list_add" -> Go([s EXCEPT !.sbi.s_truncate = <<e.a>> \o @], t, <<>>)
      [] e.k = "list_del" -> Go([s EXCEPT !.sbi.s_truncate = Without(@, e.a)], t, <<>>)
      [] e.k = "free_inode" -> Go(s, t, FreeInodeLocked(s, e))
      [] e.k = "free_fields" ->
           Go([s EXCEPT !.tbl[e.a].i_size = 0, !.tbl[e.a].i_dtime = 1], t, <<>>)
      [] e.k = "free_log" -> Go([s EXCEPT !.tbl[e.a].log = FALSE], t, <<>>)
      [] e.k = "free_count" -> FreeCounted(s, t, e.a)
      [] e.k = "free_block" ->
           Go([s EXCEPT !.tbl[e.a].nblocks = @ - 1, !.thr[t].freed = @ + 1], t, <<>>)
      [] e.k = "clear_inode" ->
           Go([s EXCEPT !.sbi.icache = @ \ {e.a},
                        !.sbi.users[e.a] = IF @ > 0 THEN @ - 1 ELSE 0],
              t, <<>>)
      [] e.k = "notify_change" -> Go(s, t, NotifyChangeLocked(s, e))
      [] e.k = "want" -> Go([s EXCEPT !.thr[t].want = e.a], t, <<>>)
      [] e.k = "isize" -> Go([s EXCEPT !.tbl[e.a].i_size = e.b], t, <<>>)
      [] e.k = "unlink" -> Go(s, t, UnlinkLocked(s, e))
      [] e.k = "nlink" -> Go([s EXCEPT !.tbl[e.a].i_links_count = e.b], t, <<>>)

\* a thread with no step left has returned
Returned(s, t) == IF Len(s.thr[t].todo) = 0 THEN [s EXCEPT !.thr[t] = IdleThread] ELSE s

SbInstall(s) ==
    /\ sbi' = s.sbi
    /\ tbl' = s.tbl
    /\ nv' = s.nv
    /\ thr' = s.thr
    /\ UNCHANGED <<pi, mem, blk, nodes, meta, err, ref, last, dir_tree, hw, ctx>>

Busy(ino) == \E t \in Threads : thr[t].op # "idle" /\ thr[t].ino = ino

Begin(t, op, ino, arg, want, steps) ==
    /\ thr[t].op = "idle"
    /\ ops > 0
    /\ ops' = ops - 1
    /\ SbInstall([SbWorld EXCEPT !.thr[t] = [IdleThread EXCEPT !.op = op, !.ino = ino,
                                                               !.arg = arg, !.want = want,
                                                               !.todo = steps]])

\* create: pmfs_new_inode, with the outcome of a block allocation for the table
NewInode(t, allocOk) ==
    Begin(t, "new_inode", 0, allocOk, 0, <<Lock(inode_table_mutex), Ev("scan", 0, 0, 0)>>)

\* unlink of the last name of an open file
Unlink(t, ino) ==
    /\ ino \in sbi.icache
    /\ tbl[ino].i_links_count = 1
    /\ ~\E u \in Threads : thr[u].op = "evict" /\ thr[u].ino = ino
    /\ Begin(t, "unlink", ino, 0, 0, <<Lock(i_mutex(ino)), Ev("unlink", ino, 0, 0)>>)

\* setattr with ATTR_SIZE on an open file
Setattr(t, ino, newsize) ==
    /\ ino \in sbi.icache
    /\ tbl[ino].i_mode = 1
    /\ tbl[ino].i_dtime = 0
    /\ ~\E u \in Threads : thr[u].op = "evict" /\ thr[u].ino = ino
    /\ Begin(t, "setattr", ino, newsize, 0,
             <<Lock(i_mutex(ino)), Ev("notify_change", ino, newsize, 0)>>)

\* the last reference to an unlinked inode is dropped: pmfs_evict_inode, with
\* the outcome of pmfs_new_transaction in pmfs_free_inode
EvictInode(t, ino, transOk) ==
    /\ ino \in sbi.icache
    /\ tbl[ino].i_links_count = 0
    /\ tbl[ino].i_mode = 1
    /\ ~Busy(ino)
    /\ Begin(t, "evict", ino, 0, tbl[ino].nblocks,
             <<Lock(inode_table_mutex), Ev("free_inode", ino, transOk, 0)>>)

Stepped(s, t) == SbInstall(Returned(s, t))

\* the next step of a thread; taking a mutex waits for it
Step(t) ==
    /\ thr[t].op # "idle"
    /\ Head(thr[t].todo).k = "lock" => sbi.mutex[Head(thr[t].todo).a] = 0
    /\ Stepped(Exec(SbWorld, t, Head(thr[t].todo)), t)
    /\ UNCHANGED ops

\* a cache line of the truncate list with new data reaches the medium on its own
Persist ==
    /\ \E u \in TruncateUnits :
          /\ nv.c[u] # nv.p[u]
          /\ nv' = [nv EXCEPT !.p[u] = nv.c[u]]
    /\ UNCHANGED <<pi, mem, blk, nodes, meta, err, ref, last, ops, dir_tree, hw, ctx, sbi,
                   tbl, thr>>

InitSb ==
    /\ InodeState(InitInode("table", "4K"), "off", MaxSbOps)
    /\ \E file \in BOOLEAN : SbBoot(file)

NextSb ==
    \/ \E t \in Threads, allocOk \in BOOLEAN : NewInode(t, allocOk)
    \/ \E t \in Threads, ino \in InodeNrs : Unlink(t, ino)
    \/ \E t \in Threads, ino \in InodeNrs, newsize \in 0..MaxFileBlocks : Setattr(t, ino, newsize)
    \/ \E t \in Threads, ino \in InodeNrs, transOk \in BOOLEAN : EvictInode(t, ino, transOk)
    \/ \E t \in Threads : Step(t)
    \/ Persist

SpecSb == InitSb /\ [][NextSb]_vars

\* the truncate list as a mount finds it on the medium; -1 stands for a walk
\* that does not end
RECURSIVE ListFrom(_, _, _)
ListFrom(img, i, fuel) ==
    IF i = 0 THEN <<>>
    ELSE IF fuel = 0 THEN <<-1>>
    ELSE <<i>> \o ListFrom(img, img[i_next_truncate(i)], fuel - 1)

PersistentList == ListFrom(nv.p, nv.p[head], MaxInodes)

OnPersistentList(ino) == \E k \in 1..Len(PersistentList) : PersistentList[k] = ino


NoRepeat(seq) == \A j, k \in 1..Len(seq) : seq[j] = seq[k] => j = k

\* the truncate list on the medium ends after finitely many inodes, none twice,
\* and the item of every inode on it holds the size pmfs_truncate_add stored
ListWellFormed ==
    /\ NoRepeat(PersistentList)
    /\ \A k \in 1..Len(PersistentList) :
          /\ PersistentList[k] \in InodeNrs \ {0}
          /\ nv.p[i_truncatesize(PersistentList[k])] = nv.c[i_truncatesize(PersistentList[k])]

\* C24: pmfs_truncate_add stores the inode number into head.next only when the
\* item {next, size} of the inode is on the medium, and in every state a power
\* loss can leave behind the list from the head is acyclic, ends with 0, and has
\* only inodes whose item is fully written.
C24_ItemBeforeHead ==
    [][/\ ListWellFormed'
       /\ \A i \in InodeNrs \ {0} :
             (nv'.c[head] = i /\ nv.c[head] # i /\ ~OnTruncateList(SbWorld, i))
             => /\ nv.p[i_next_truncate(i)] = nv.c[i_next_truncate(i)]
                /\ nv.p[i_truncatesize(i)] = nv.c[i_truncatesize(i)]]_vars

\* two inodes on the list on the medium, the second one put in front of the first
C24_Witness ==
    /\ Len(PersistentList) = 2
    /\ nv.p[i_next_truncate(PersistentList[1])] = PersistentList[2]
    /\ nv.p[i_truncatesize(PersistentList[2])] = MaxFileBlocks
    /\ sbi.s_truncate = PersistentList


\* the operations of C25 that free blocks of their inode
Freeing(t) == thr[t].op \in {"setattr", "evict"}

\* C25: while a size-changing setattr or the evict of an unlinked inode has
\* freed a block and has not yet called pmfs_truncate_del, the inode is on the
\* truncate list of the medium, and pmfs_truncate_del is called only when
\* every block the operation has to free is freed.
C25_OnListWhileFreeing ==
    \A t \in Threads :
       Freeing(t) =>
          /\ (thr[t].freed > 0 /\ ~thr[t].del) => OnPersistentList(thr[t].ino)
          /\ thr[t].del => thr[t].freed = thr[t].want


\* a slot whose inode has no name left and is still open
UnlinkedOpen(s) == s.i_links_count = 0 /\ s.i_mode # 0 /\ s.i_dtime = 0

\* the slot pmfs_new_inode is about to take, 0 when its next step takes none
Taking(t) ==
    IF thr[t].op = "new_inode" /\ Head(thr[t].todo).k = "claim" THEN Head(thr[t].todo).a
    ELSE 0

\* C26: the slot pmfs_new_inode takes had, when the scan met it, no link and
\* either no mode or a deletion time; it is never slot 0 nor a slot below
\* PMFS_FREE_INODE_HINT_START, never a live inode and never an inode that is
\* unlinked and still open.
C26_ReturnsFreeSlot ==
    \A t \in Threads :
       /\ thr[t].op = "new_inode" /\ Head(thr[t].todo).k = "claim" =>
             /\ Taking(t) >= PMFS_FREE_INODE_HINT_START
             /\ Taking(t) # 0
             /\ Taking(t) < sbi.s_inodes_count
       /\ thr[t].op = "new_inode" /\ thr[t].got # 0 =>
             /\ thr[t].was.i_links_count = 0
             /\ thr[t].was.i_mode = 0 \/ thr[t].was.i_dtime # 0
             /\ ~(thr[t].was.i_dtime = 0 /\ thr[t].was.i_links_count > 0)
             /\ ~UnlinkedOpen(thr[t].was)

\* pmfs_new_inode takes the slot of a deleted inode, which still has its mode
C26_Witness ==
    \E t \in Threads :
       /\ thr[t].op = "new_inode"
       /\ thr[t].got # 0
       /\ thr[t].was.i_mode # 0
       /\ thr[t].was.i_dtime # 0


\* C27: no inode number is handed out by pmfs_new_inode to two users at a
\* time, and a slot taken no longer passes the test for a free slot once the
\* call has released inode_table_mutex.
C27_SlotTakenUnderMutex ==
    /\ \A i \in InodeNrs : sbi.users[i] <= 1
    /\ \A t \in Threads :
          (thr[t].op = "new_inode" /\ thr[t].got # 0
              /\ sbi.mutex[inode_table_mutex] # t) => ~IsFreeSlot(tbl[thr[t].got])


\* the place of a mutex in the order of acquisition
Rank(m) ==
    CASE m = inode_table_mutex -> 1
      [] m[1] = "i_mutex" -> 2
      [] m = s_lock -> 3
      [] m = s_truncate_lock -> 4

\* the thread is at a mutex_lock of a mutex that is taken
Waiting(t) ==
    /\ thr[t].op # "idle"
    /\ Head(thr[t].todo).k = "lock"
    /\ sbi.mutex[Head(thr[t].todo).a] # 0

KnownTypes == {1, DIR_LOG, 3, 4}
UnknownTypes == {0, 5}

\* the records of the directory log between log_head and log_tail whose type is
\* not known
UnknownRecords ==
    {a \in pi.log_head..(pi.log_tail - 1) :
        /\ IsEntryAddr(a)
        /\ EntryAt(World, a).name_len > 0
        /\ EntryAt(World, a).entry_type \notin KnownTypes}

\* the type byte of the published record at a reads as type
DirDamage(a, type) ==
    /\ err = {}
    /\ hw.mode = "off"
    /\ pi.i_mode = "dir"
    /\ pi.log_head # 0
    /\ UnknownRecords = {}
    /\ a \in pi.log_head..(pi.log_tail - 1)
    /\ IsEntryAddr(a)
    /\ EntryAt(World, a).entry_type = DIR_LOG
    /\ EntryAt(World, a).name_len > 0
    /\ mem' = [mem EXCEPT ![pmfs_get_blocknr(a)].entries[ENTRY_LOC(a) \div ENTRY_SIZE].entry_type
                              = type]
    /\ last' = [op |-> "damage", curr_p |-> a]
    /\ UNCHANGED <<pi, blk, nodes, meta, err, ref, ops, dir_tree, hw, rest>>

NextDirDamage ==
    \/ NextDir
    \/ \E k \in 0..(ENTRIES_PER_PAGE - 1), type \in UnknownTypes :
          DirDamage(pi.log_head + k * ENTRY_SIZE, type)

SpecDirDamage == InitDir /\ [][NextDirDamage]_vars

\* the first record of unknown type in the log
FirstUnknown == CHOOSE a \in UnknownRecords : \A b \in UnknownRecords : a <= b

\* C28: a replay that meets a record of unknown type leaves the index as the
\* records before it have built it: the record is not replayed as a directory
\* entry and nothing after it is.
C28_UnknownTypeEndsReplay ==
    (last.op = "dirmount" /\ last.ret = 0 /\ err = {} /\ UnknownRecords # {}) =>
        dir_tree = pmfs_rebuild_dir_inode_tree([World EXCEPT !.pi.log_tail = FirstUnknown],
                                               TRUE).w.dt


(***************************************************************************)
(* SEEK_DATA / SEEK_HOLE: pmfs_find_region over the block map.  A slot     *)
(* index past the end of a meta block reads the word that follows the      *)
(* block on the medium: beyond is that word, zero or not.                  *)
(***************************************************************************)
NoRegion == [blocks |-> 0, data_found |-> FALSE, hole_found |-> FALSE, done |-> FALSE,
             wild |-> FALSE]

\* node[i] of the meta block
NodeWord(w, block, i, beyond) == IF i < FANOUT THEN w.nodes[block][i] ELSE beyond

\* the branch of the loop body for a leaf slot or an empty slot, 2 ^ node_bits
\* blocks wide
RegionSlot(v, width, acc, hole) ==
    IF v # 0
    THEN IF ~hole THEN [acc EXCEPT !.data_found = TRUE, !.done = TRUE]
         ELSE [acc EXCEPT !.data_found = TRUE,
                          !.blocks = IF acc.hole_found THEN @ ELSE @ + width]
    ELSE [acc EXCEPT !.hole_found = TRUE, !.blocks = IF hole THEN @ ELSE @ + width]

\* the result of the call for a child added to the count of the caller
RegionChild(acc, sub, hole) ==
    [sub EXCEPT !.blocks = acc.blocks + sub.blocks,
                !.done = sub.wild \/ (~hole /\ sub.data_found)]

RECURSIVE recursive_find_region(_, _, _, _, _, _, _, _)
RECURSIVE RegionLoop(_, _, _, _, _, _, _, _, _)

\* the loop of recursive_find_region from slot i on
RegionLoop(w, block, height, i, first_blocknr, last_blocknr, acc, hole, beyond) ==
    IF acc.done \/ i > last_blocknr \div (2 ^ ((height - 1) * META_BLK_SHIFT)) THEN acc
    ELSE IF height = 1 \/ NodeWord(w, block, i, beyond) = 0
    THEN RegionLoop(w, block, height, i + 1, first_blocknr, last_blocknr,
                    RegionSlot(NodeWord(w, block, i, beyond),
                               2 ^ ((height - 1) * META_BLK_SHIFT), acc, hole),
                    hole, beyond)
    ELSE IF NodeWord(w, block, i, beyond) \notin Metas
    THEN [acc EXCEPT !.wild = TRUE, !.done = TRUE]
    ELSE RegionLoop(w, block, height, i + 1, first_blocknr, last_blocknr,
                    RegionChild(acc,
                       recursive_find_region(
                          w, NodeWord(w, block, i, beyond), height - 1,
                          IF i = first_blocknr \div (2 ^ ((height - 1) * META_BLK_SHIFT))
                          THEN first_blocknr % (2 ^ ((height - 1) * META_BLK_SHIFT)) ELSE 0,
                          IF i = last_blocknr \div (2 ^ ((height - 1) * META_BLK_SHIFT))
                          THEN last_blocknr % (2 ^ ((height - 1) * META_BLK_SHIFT))
                          ELSE 2 ^ ((height - 1) * META_BLK_SHIFT) - 1,
                          [acc EXCEPT !.blocks = 0], hole, beyond),
                       hole),
                    hole, beyond)

\* blocks counts from 0 in every call; the two flags are shared by all calls
recursive_find_region(w, block, height, first_blocknr, last_blocknr, acc, hole, beyond) ==
    RegionLoop(w, block, height, first_blocknr \div (2 ^ ((height - 1) * META_BLK_SHIFT)),
               first_blocknr, last_blocknr, acc, hole, beyond)

\* the part of pmfs_find_region after the label out
RegionOut(w, offset, hole, r) ==
    IF r.wild THEN [ret |-> "wild", offset |-> offset]
    ELSE IF ~hole /\ ~r.data_found /\ r.hole_found THEN [ret |-> "ENXIO", offset |-> offset]
    ELSE IF r.data_found /\ ~r.hole_found
    THEN [ret |-> "0", offset |-> IF hole THEN w.pi.i_size ELSE offset]
    ELSE IF hole /\ r.hole_found /\ r.blocks = 0
    THEN [ret |-> "0", offset |-> IF ~r.data_found THEN w.pi.i_size ELSE offset]
    ELSE IF (offset % pmfs_inode_blk_size(w.pi)) # 0
    THEN [ret |-> "0",
          offset |-> offset + (r.blocks - 1) * pmfs_inode_blk_size(w.pi)
                        + (pmfs_inode_blk_size(w.pi) - (offset % pmfs_inode_blk_size(w.pi)))]
    ELSE [ret |-> "0", offset |-> offset + r.blocks * pmfs_inode_blk_size(w.pi)]

pmfs_find_region(w, offset, hole, beyond) ==
    IF offset >= w.pi.i_size THEN [ret |-> "ENXIO", offset |-> offset]
    ELSE IF w.pi.i_blocks = 0 \/ w.pi.root = 0
    THEN [ret |-> IF hole THEN "i_size" ELSE "ENXIO", offset |-> offset]
    ELSE IF w.pi.height = 0
    THEN RegionOut(w, offset, hole, [NoRegion EXCEPT !.data_found = TRUE])
    ELSE RegionOut(w, offset, hole,
                   recursive_find_region(w, w.pi.root, w.pi.height,
                                         offset \div pmfs_inode_blk_size(w.pi),
                                         w.pi.i_size \div pmfs_inode_blk_size(w.pi),
                                         NoRegion, hole, beyond))

\* llseek with SEEK_DATA or SEEK_HOLE at an offset inside the file
Seek(offset, hole, beyond) ==
    /\ err = {}
    /\ hw.mode = "off"
    /\ pi.i_mode = "reg"
    /\ pi.i_dtime = 0
    /\ offset < pi.i_size
    /\ last' = [op |-> "seek", offset |-> offset, hole |-> hole,
                r |-> pmfs_find_region(World, offset, hole, beyond)]
    /\ UNCHANGED <<pi, mem, blk, nodes, meta, err, ref, ops, dir_tree, hw, rest>>

SeekOffsets == {b * PAGE_SIZE + d : b \in 0..(FANOUT ^ 3), d \in {0, 1}}

InitSeek == InitState(InitInode("reg", "4K"), "off", MaxTallOps)

NextSeek ==
    \/ \E pgoff \in TallBlocks, fuel \in MetaFuel : WriteFar(pgoff, fuel)
    \/ \E newsize \in TallSizes : Truncate(newsize)
    \/ \E offset \in SeekOffsets, hole \in BOOLEAN, beyond \in {0, 1} : Seek(offset, hole, beyond)

SpecSeek == InitSeek /\ [][NextSeek]_vars

\* the blocks of the file from the block of offset on that are data, or holes
RegionBlocks(offset, data) ==
    {b \in (offset \div PAGE_SIZE)..(FANOUT ^ 3 + 1) :
        b * PAGE_SIZE < pi.i_size /\ (LeafSlot(World, b) # 0) = data}

\* the reference: the first such block, at the offset itself when the offset is
\* in it; with none, ENXIO for data and the size for a hole
SeekReference(offset, hole) ==
    IF RegionBlocks(offset, ~hole) = {}
    THEN [ret |-> IF hole THEN "0" ELSE "ENXIO", offset |-> IF hole THEN pi.i_size ELSE offset]
    ELSE [ret |-> "0",
          offset |-> Max(offset, PAGE_SIZE * (CHOOSE b \in RegionBlocks(offset, ~hole) :
                                     \A c \in RegionBlocks(offset, ~hole) : b <= c))]

\* C30: for a block map of any height up to 3 and an offset below the size,
\* pmfs_find_region gives the offset and the result of the reference
\* SEEK_DATA / SEEK_HOLE.
C30_FindRegionIsReference ==
    last.op = "seek" => last.r = SeekReference(last.offset, last.hole)

(***************************************************************************)
(* C31.  The invalidation counter step by step.                            *)
(***************************************************************************)
\* the leaf slots (or the height-0 root) that stop holding the entry at p in a step
SlotsLost(p) == SlotsHolding(p) - SlotsHolding(p)'

\* every operation that sets err stopped in BUG() or read outside the log
CleanStep == err = {} /\ err' = {}

\* C31: in every step of overwrite, truncate or inode free, each FILE_WRITE entry's
\* counter rises by one per slot that stopped holding it while it is below the
\* limit and stays at the limit once there; the counter never exceeds the limit;
\* and the data-block address in the upper bits of block is the same afterwards.
C31_BumpSaturatesKeepsAddress ==
    [][CleanStep =>
          \A p \in FileEntries :
              /\ Counter(p) <= COUNTER_LIMIT
              /\ Counter(p)' = Min(Counter(p) + SlotsLost(p), COUNTER_LIMIT)
              /\ BLOCK_OFF(EntryAt(World, p).block)' = BLOCK_OFF(EntryAt(World, p).block)]_vars

\* an entry at the limit lost another slot, and an entry below it lost one, by
\* truncate or inode free
C31_Witness ==
    /\ err = {}
    /\ last.op \in {"truncate", "evict"}
    /\ \E p \in LogEntryAddrs :
          /\ EntryAt(World, p).num_pages > COUNTER_LIMIT
          /\ Counter(p) = COUNTER_LIMIT
          /\ SlotsHolding(p) = 0

(***************************************************************************)
(* C32.  The inline inode slot of a DIR_LOG entry that carries a new       *)
(* inode: where the append puts it and where the replay looks for it.  The *)
(* cacheline and the inode are scaled to the model's page; an inode is two *)
(* cachelines.                                                             *)
(***************************************************************************)
CACHELINE_SIZE == 8
PMFS_INODE_SIZE == 16

CACHE_ALIGN(p) == p - (p % CACHELINE_SIZE)

\* the next cacheline boundary at or after p
InodeStart(p) ==
    IF p % CACHELINE_SIZE = 0 THEN p ELSE CACHE_ALIGN(p) + CACHELINE_SIZE

\* is_last_entry of pmfs.h with new_inode == 1
is_last_entry_inode(curr_p, size) ==
    LET entry_end == ENTRY_LOC(curr_p) + size
    IN IF entry_end > LAST_ENTRY THEN TRUE
       ELSE InodeStart(entry_end) + PMFS_INODE_SIZE > LAST_ENTRY

\* pmfs_append_dir_inode_entry, if (new_inode): *pi_addr and *curr_tail
AppendInline(w, curr_p, de_len) ==
    LET curr_tail == curr_p + de_len
        inode_start == IF is_last_entry_inode(curr_p, de_len)
                       THEN next_log_page(w, curr_p)
                       ELSE InodeStart(curr_tail)
    IN [pi_addr |-> inode_start, curr_tail |-> inode_start + PMFS_INODE_SIZE]

\* the replay that looks for the inode on the page of the entry in every case
ReplayInlineSamePage(w, entry_p, de_len) ==
    [pi_addr |-> InodeStart(entry_p + de_len),
     curr_tail |-> InodeStart(entry_p + de_len) + PMFS_INODE_SIZE]

\* pmfs_rebuild_dir_inode_tree, if (entry->new_inode), for the entry at entry_p:
\* the position handed to pmfs_recover_inode and curr_p after the slot
ReplayInline(w, entry_p, de_len) ==
    LET curr_p == entry_p + de_len
        at == IF is_last_entry_inode(curr_p - de_len, de_len)
              THEN next_log_page(w, curr_p)
              ELSE InodeStart(curr_p)
    IN [pi_addr |-> at, curr_tail |-> at + PMFS_INODE_SIZE]

\* entry lengths are padded to 4 bytes
InlineLens == {4 * k : k \in 1..(LAST_ENTRY \div 4)}

\* log pages of the directory and what the link in the tail of a page may hold
InlinePages == 1..2
InlineLinks == {0} \cup {pmfs_get_block_off(b) : b \in 1..3}

\* the places on a page where an entry of that length ends at or before the page
\* tail, which is where pmfs_get_append_head puts one
InlinePlaces(de_len) ==
    {pmfs_get_block_off(b) + 4 * k : b \in InlinePages,
                                    k \in 0..((LAST_ENTRY - de_len) \div 4)}

\* an entry with new_inode == 1 of length de_len at curr_p on a page whose tail
\* links to next: the positions the append computes and the positions the replay
\* computes from the same log
InlineEntry(curr_p, de_len, next) ==
    /\ pi.i_mode = "dir"
    /\ last.op = "none"
    /\ curr_p \in InlinePlaces(de_len)
    /\ last' = [op |-> "inline", curr_p |-> curr_p, de_len |-> de_len,
                append |-> AppendInline(SetNextPage(World, pmfs_get_blocknr(curr_p), next),
                                        curr_p, de_len),
                replay |-> ReplayInline(SetNextPage(World, pmfs_get_blocknr(curr_p), next),
                                        curr_p, de_len)]
    /\ UNCHANGED <<pi, mem, blk, nodes, meta, err, ref, ops, dir_tree, hw>>
    /\ UNCHANGED rest

NextInline ==
    \E de_len \in InlineLens, next \in InlineLinks :
        \E curr_p \in InlinePlaces(de_len) : InlineEntry(curr_p, de_len, next)

SpecInline == InitDir /\ [][NextInline]_vars

\* C32: for every place and length of a DIR_LOG entry with new_inode == 1 the
\* replay finds the inline inode where the append put it and continues at the
\* same next entry, on the page of the entry and on the next page alike.
C32_ReplayFindsInlineInode ==
    last.op = "inline" => last.replay = last.append

\* the pair did not fit: the inode slot went to the next page of the chain
C32_Witness ==
    /\ last.op = "inline"
    /\ is_last_entry_inode(last.curr_p, last.de_len)
    /\ last.append.pi_addr # 0
    /\ BLOCK_OFF(last.append.pi_addr) # BLOCK_OFF(last.curr_p)
    /\ last.replay.pi_addr = last.append.pi_addr

\* the pair fitted: the inode slot follows the entry after padding
C32_SamePagePadded ==
    /\ last.op = "inline"
    /\ ~is_last_entry_inode(last.curr_p, last.de_len)
    /\ last.append.pi_addr > last.curr_p + last.de_len

(***************************************************************************)
(* C33.  Growth and shrink of the tree leave the mapping alone.            *)
(***************************************************************************)
\* the roots a shrink by n levels takes off: the root, its slot 0, and so on
RECURSIVE DroppedRoots(_, _, _)
DroppedRoots(w, root, n) ==
    IF n = 0 \/ root \notin Metas THEN {}
    ELSE {root} \cup DroppedRoots(w, w.nodes[root][0], n - 1)

\* the first block a truncation to newsize removes
FirstCut(newsize) == (newsize + pmfs_inode_blk_size(pi) - 1) \div pmfs_inode_blk_size(pi)

FirstBlockOf(l) == IF l.op = "write" THEN l.pgoff ELSE l.first

\* the step made the tree taller for a write or an allocation
Grew == ops' # ops /\ TreeRequest(last') /\ pi'.height > pi.height

\* the step was a truncation that made a tree that still has blocks lower
Shrank == ops' # ops /\ last'.op = "truncate" /\ pi'.height < pi.height /\ pi'.root # 0

\* A regular file written far into the file, with the meta block allocator failing
\* at any point, and truncated, over one operation more than SpecTall.
MaxShrinkOps == 4

InitShrink == InitState(InitInode("reg", "4K"), "off", MaxShrinkOps)

NextShrink ==
    \/ \E pgoff \in TallBlocks, fuel \in MetaFuel : WriteFar(pgoff, fuel)
    \/ \E newsize \in TallSizes : Truncate(newsize)

SpecShrink == InitShrink /\ [][NextShrink]_vars

\* C33: a step that makes the tree taller leaves every block mapped before, and
\* not written by the step, mapped as before; a truncation that makes the tree
\* lower leaves every block below the cut and below fanout^new height mapped as
\* before, and the roots it takes off have nothing but slot 0 in use.
C33_HeightChangeKeepsMapping ==
    [][(err = {} /\ err' = {}) =>
          /\ Grew =>
                \A b \in Mapped :
                    (b < FirstBlockOf(last') \/ b > LastBlockOf(last')) =>
                        LeafSlot(World, b)' = LeafSlot(World, b)
          /\ Shrank =>
                /\ \A b \in 0..(FANOUT ^ pi'.height - 1) :
                      b < FirstCut(last'.newsize) =>
                          LeafSlot(World, b)' = LeafSlot(World, b)
                /\ \A m \in DroppedRoots(World, pi.root, pi.height - pi'.height) :
                      /\ meta'[m] = "free"
                      /\ \A i \in Slots \ {0} : nodes'[m][i] = 0]_vars

(***************************************************************************)
(* C34.  Power loss during a truncate whose size is on the truncate list,  *)
(* and the truncate applied again at the next mount.                       *)
(***************************************************************************)
CrashSizes == {b * PAGE_SIZE : b \in 0..2}

\* the walk of the truncate list at mount: pmfs_setsize to the recorded size
RecoverTruncate(w, truncate_size) ==
    TruncateBlocks([w EXCEPT !.pi.i_size = truncate_size], truncate_size, w.pi.i_size, TRUE)

\* power loss after the truncate has freed its blocks and before pmfs_truncate_del,
\* either before the stores to the first inode line (the medium has the line as it
\* was before the truncate) or after they reached the medium; the mount replays
\* the log and applies the truncate again.  The record of the step keeps what the
\* truncate had reached without the power loss.
TruncRecover ==
    /\ hw.mode = "run"
    /\ \/ hw.todo = <<>> /\ hw.pm.line0 = Line0(pi)
       \/ /\ Len(hw.todo) = 1 /\ Head(hw.todo).k = "st"
          /\ Head(hw.todo).u = Unit("line0", 0)
          /\ hw.pm.line0 = hw.cv.line0
    /\ err = {}
    /\ pi.i_mode = "reg"
    /\ last.op = "truncate"
    /\ Mounted(RecoverTruncate(pmfs_rebuild_inode_tree(Unmounted(AfterCrash)), last.newsize))
    /\ hw' = [hw EXCEPT !.mode = "recovered", !.cv = hw.pm, !.pend = {}]
    /\ last' = [op |-> "recover", newsize |-> last.newsize,
                map |-> [b \in 0..MaxBlk |-> LeafSlot(World, b)],
                height |-> pi.height, i_blocks |-> pi.i_blocks,
                old_size |-> hw.pm.line0.i_size]
    /\ UNCHANGED <<ref, ops>>
    /\ UNCHANGED rest

InitTruncCrash == InitState(InitInode("reg", "4K"), "run", MaxCrashOps)

NextTruncCrash ==
    \/ \E pgoff \in 0..CrashMaxBlk, num \in 1..2, allocOk \in BOOLEAN : Write(pgoff, num, allocOk)
    \/ \E newsize \in CrashSizes : Truncate(newsize)
    \/ Hw
    \/ Writeback
    \/ TruncRecover

SpecTruncCrash == InitTruncCrash /\ [][NextTruncCrash]_vars

\* C34: after a power loss during a truncate and the truncate applied again at
\* mount, the block map, the height and the block count are those the truncate
\* reaches when it is not interrupted, and no block is freed that was free already.
C34_ReappliedTruncateSame ==
    last.op = "recover" =>
        /\ err = {}
        /\ \A b \in 0..MaxBlk : LeafSlot(World, b) = last.map[b]
        /\ pi.height = last.height
        /\ pi.i_blocks = last.i_blocks


\* a call of pmfs_new_inode has taken slot i and has not returned yet
UnderWay(i) == \E t \in Threads : thr[t].op = "new_inode" /\ thr[t].got = i

\* the slots for files
FileSlots(s) == PMFS_FREE_INODE_HINT_START..(s.s_inodes_count - 1)

\* thread t executes the counter update of pmfs_free_inode in this step
FreeCountStep(t) ==
    /\ thr[t].op = "evict"
    /\ Head(thr[t].todo).k = "free_count"
    /\ thr'[t] # thr[t]

\* C35: after any sequence of pmfs_new_inode, pmfs_free_inode and table
\* extensions (whenever inode_table_mutex is free, the slot of a call still
\* under way aside) no free slot lies below s_free_inode_hint; the table is
\* extended only when no slot is free; freeing a slot below the hint moves the
\* hint back to it, and freeing the last used slot puts the hint at
\* PMFS_FREE_INODE_HINT_START.
C35_NoFreeSlotBelowHint ==
    /\ [](sbi.mutex[inode_table_mutex] = 0 =>
             \A i \in FileSlots(sbi) :
                 (i < sbi.s_free_inode_hint /\ ~UnderWay(i)) => ~IsFreeSlot(tbl[i]))
    /\ [][/\ sbi'.s_inodes_count > sbi.s_inodes_count =>
                \A i \in FileSlots(sbi) : ~IsFreeSlot(tbl[i])
          /\ \A t \in Threads : FreeCountStep(t) =>
                /\ thr[t].ino < sbi.s_free_inode_hint =>
                      sbi'.s_free_inode_hint = thr[t].ino
                /\ (\A i \in FileSlots(sbi) : IsFreeSlot(tbl[i])) =>
                      sbi'.s_free_inode_hint = PMFS_FREE_INODE_HINT_START]_vars

\* pmfs_free_inode has freed slot ino below the hint, the last slot in use: the
\* hint is back at it, the first slot for files
C35_Witness ==
    \E t \in Threads :
       /\ thr[t].op = "evict"
       /\ thr[t].held = <<inode_table_mutex>>
       /\ Len(thr[t].todo) > 0
       /\ Head(thr[t].todo).k = "unlock"
       /\ tbl[thr[t].ino].i_dtime # 0
       /\ sbi.s_free_inode_hint = thr[t].ino
       /\ \A i \in FileSlots(sbi) : IsFreeSlot(tbl[i])


\* ---- what the replay of a file log reads ----

\* the positions pmfs_rebuild_inode_tree reads as log entries, from curr_p on
RECURSIVE RebuildReads(_, _, _)
RebuildReads(w, curr_p, fuel) ==
    IF curr_p = w.pi.log_tail \/ curr_p = 0 \/ fuel = 0 \/ ~IsEntryAddr(curr_p) THEN {}
    ELSE {curr_p} \cup RebuildReads(w, RebuildNext(w, curr_p), fuel - 1)

\* C36: the replay of a file log after power loss reads as log entries only
\* positions in front of log_tail and ends at log_tail, never at a next_page
\* link of 0.
C36_ReplayStopsAtTail ==
    [][(hw.mode = "run" /\ hw'.mode = "recovered") =>
          /\ RebuildReads(AfterCrash, AfterCrash.pi.log_head, WalkFuel)
                \subseteq PmEntries
          /\ "BUG" \notin err']_vars


\* ---- blocks are freed once, and only when nothing maps them ----

\* the interior blocks reachable from slot value bp over height levels
RECURSIVE TreeMetas(_, _, _)
TreeMetas(w, bp, height) ==
    IF height = 0 \/ bp \notin Metas THEN {}
    ELSE {bp} \cup UNION {TreeMetas(w, w.nodes[bp][s], height - 1) :
                             s \in {x \in Slots : w.nodes[bp][x] # 0}}

\* C37: across writes (assign, overwrite) and log replays of one file no block
\* is handed to the allocator while it is free already, and no data block that
\* a leaf slot maps and no interior block reachable from the root is free.
C37_FreedOnceWhenUnmapped ==
    /\ "double_free" \notin err
    /\ err = {} =>
          /\ \A b \in 0..(FANOUT ^ 3 - 1) :
                pmfs_find_data_block(World, b) # 0 =>
                    blk[pmfs_get_blocknr(pmfs_find_data_block(World, b))] # "free"
          /\ \A m \in TreeMetas(World, pi.root, pi.height) : meta[m] # "free"


\* ---- leaf slots and collected log pages ----

MaxRemountOps == 5

\* A small file overwritten and read in again at any point, long enough for
\* the collector to run after a replay.
InitRemount == InitState(InitInode("reg", "4K"), "off", MaxRemountOps)

NextRemount ==
    \/ \E pgoff \in 0..LogMaxBlk, num \in 1..2 : Write(pgoff, num, TRUE)
    \/ FileMount

SpecRemount == InitRemount /\ [][NextRemount]_vars

\* the log page of log position p
PageOf(p) == pmfs_get_block_off(pmfs_get_blocknr(p))

\* C38: when garbage collection has unlinked and freed log pages, no leaf slot
\* of the block map (and no height-0 root) holds the offset of an entry on one
\* of them.
C38_NoSlotOnCollectedPage ==
    (err = {} /\ GCRan) =>
        \A b \in 0..(FANOUT ^ 3 - 1) :
            LeafSlot(World, b) # 0 => PageOf(LeafSlot(World, b)) \notin Range(last.gc.freed)


\* ---- names with the same hash ----

\* two names with the same BKDR hash, and one with another
CollideNames == {"b<9c>", "a<1f>", "a"}

\* A directory under the operations of SpecDir on names with a common hash.
NextCollide ==
    \/ \E allocOk \in BOOLEAN : DirInit(allocOk)
    \/ \E name \in CollideNames, ino \in DirInos, allocOk \in BOOLEAN, nodeOk \in BOOLEAN :
          DirAdd(name, ino, allocOk, nodeOk)
    \/ \E name \in CollideNames, allocOk \in BOOLEAN : DirRemove(name, allocOk)
    \/ \E nodeOk \in BOOLEAN : DirMount(nodeOk)
    \/ \E room \in 1..MaxRoom : Readdir(room)

SpecCollide == InitDir /\ [][NextCollide]_vars

\* C39: pmfs_find_dir_node_by_name(name) returns a node only if the record the
\* node points at holds that name.
C39_FindComparesName ==
    err = {} =>
        \A name \in CollideNames :
            pmfs_find_dir_node_by_name(World, name) # NoNode =>
                EntryAt(World, pmfs_find_dir_node_by_name(World, name).nvmm).name = name


\* ---- the truncate list entry of an unlinked open inode ----

\* C40: an inode that is on the truncate list with no name left and still open
\* leaves the in-DRAM list and the persistent list only while pmfs_evict_inode
\* runs on it, also when a setattr changes its size in between.
C40_UnlinkedStaysOnList ==
    [][\A ino \in InodeNrs :
          (/\ UnlinkedOpen(tbl[ino])
           /\ \/ OnTruncateList(SbWorld, ino) /\ ~OnTruncateList(SbWorld, ino)'
              \/ OnPersistentList(ino) /\ ~OnPersistentList(ino)')
             => \E t \in Threads :
                   thr[t].op = "evict" /\ thr[t].ino = ino]_vars

=============================================================================
